---- MODULE Spec2Model ----
(***************************************************************************)
(* Model of the order-splitter service core:                               *)
(*   - DecimalUtil   (src/common/utilities/decimal.util.ts)                *)
(*   - OrderSplitter (src/orders/domain/order-splitter.ts)                 *)
(*   - MarketPolicy  (src/common/utilities/market.policy.ts)               *)
(*                                                                         *)
(* Numbers.  A decimal value is a record [m |-> coefficient, e |-> digits] *)
(* standing for m * 10^(-e), kept normalised (no trailing zero digit), so  *)
(* equal values are equal records.  All values of the model have far fewer *)
(* than 15 significant digits, the range in which Decimal <-> number       *)
(* conversions (new Decimal(n), toNumber()) lose nothing and the 20-digit  *)
(* working precision of decimal.js is never reached.                       *)
(*                                                                         *)
(* Time.  An instant is a whole number of seconds since 1970-01-01T00:00Z  *)
(* (a Date without its milliseconds, which no code path reads).  The       *)
(* caller's timezone is a fixed offset from UTC in seconds.                *)
(***************************************************************************)
EXTENDS Integers, Sequences, FiniteSets, TLC

VARIABLES
    total,        \* split: argument `total` of the call (made by the last operation)
    portfolio,    \* split: argument `portfolio` of the call
    precision,    \* split: argument `precision` of the call
    outcome,      \* split: "idle" | "ok" | message of the Error thrown | "done" (no call)
    orders,       \* split: the returned array (<<>> when nothing is returned)
    instant,      \* market: the Date argument of the last call
    tzOffset,     \* market: the local timezone of the process
    marketOp,     \* market: "idle" | "none" | name of the method last called | "done";
                  \* "nextExecutionDate.loop" while the call is in its loop
    marketResult, \* market: returned value, "ok" for void, or exception code
    callLog,      \* market: the calls made on the Date object so far, with their results
    decOp,        \* decimal: "idle" | name of the DecimalUtil method last called | "done"
    decArgs,      \* decimal: the arguments of the last call
    decResult,    \* decimal: the returned number (Undefined when nothing is returned)
    thrown,       \* the error value thrown by the last call of the core, or NoError
    now,          \* service: Date.now(), in milliseconds since the process started
    keys,         \* service: IdempotencyStore.keys
    keyTimestamps,\* service: IdempotencyStore.keyTimestamps
    repoOrders,   \* service: InMemoryOrderRepository.orders
    savedFor,     \* service: for each saved order, the key and time of its request
    request,      \* service: the last POST /orders/split request
    response,     \* service: what the handler returned or threw for it
    calls,        \* service: the collaborators the handler called, in order
    requestCount, \* service: number of requests handled
    tickCount,    \* service: number of clock steps
    repoLog,     \* repository: the calls made on the repository so far, with what they gave
    history,     \* history: the arguments of the last call of history and what it returned
    nextDate,    \* market: the local day the loop of nextExecutionDate stands at
    iterations,  \* market: the number of days the loop has skipped
    handlers,    \* concurrency: the requests being handled at the same time, each with its position
    retry        \* Retry: the options of the decorator and the progress of one call of the wrapper

splitVars == <<total, portfolio, precision, outcome, orders>>
marketVars == <<instant, tzOffset, marketOp, marketResult, callLog, nextDate, iterations>>
decimalVars == <<decOp, decArgs, decResult>>
serviceVars == <<now, keys, keyTimestamps, repoOrders, savedFor, request,
                 response, calls, requestCount, tickCount,
                 repoLog,
                 history,
                 handlers,
                 retry>>

vars == <<splitVars, marketVars, decimalVars, thrown, serviceVars>>

----------------------------------------------------------------------------
(* Bounds *)

MaxItems == 3
MaxPrecision == 1

----------------------------------------------------------------------------
(* Integer helpers *)

Abs(n) == IF n < 0 THEN -n ELSE n

Sign(n) == IF n < 0 THEN -1 ELSE IF n > 0 THEN 1 ELSE 0

RECURSIVE Pow10(_)
Pow10(n) == IF n <= 0 THEN 1 ELSE 10 * Pow10(n - 1)

Max2(a, b) == IF a >= b THEN a ELSE b

\* mutant: ties away from zero instead of to the even neighbour
RoundHalfEvenDiv_HalfUp(n, d) ==
    LET a == Abs(n)
        q == a \div d
        r == a % d
        up == IF 2 * r >= d THEN 1 ELSE 0
    IN Sign(n) * (q + up)

\* n / d rounded to an integer, ties to the even neighbour (d > 0)
RoundHalfEvenDiv(n, d) ==
    LET a == Abs(n)
        q == a \div d
        r == a % d
        up == IF 2 * r > d THEN 1
              ELSE IF 2 * r = d THEN q % 2
              ELSE 0
    IN Sign(n) * (q + up)

\* mutant: ties to the even neighbour instead of away from zero
RoundHalfUpDiv_HalfEven(n, d) ==
    LET a == Abs(n)
        b == Abs(d)
        q == a \div b
        r == a % b
        up == IF 2 * r > b THEN 1
              ELSE IF 2 * r = b THEN q % 2
              ELSE 0
    IN Sign(n) * Sign(d) * (q + up)

\* n / d rounded to an integer, ties away from zero (d # 0)
RoundHalfUpDiv(n, d) ==
    LET a == Abs(n)
        b == Abs(d)
        q == a \div b
        r == a % b
        up == IF 2 * r >= b THEN 1 ELSE 0
    IN Sign(n) * Sign(d) * (q + up)

----------------------------------------------------------------------------
(* Values that are not finite numbers, and error values *)

\* the numbers NaN and Infinity, and the value undefined: records that no
\* finite decimal equals (a finite decimal has e >= 0)
NaN == [m |-> 0, e |-> 0 - 1]
Infinity == [m |-> 1, e |-> 0 - 1]
Undefined == [m |-> 0, e |-> 0 - 2]

IsFiniteNumber(x) == x.e >= 0

\* no error was thrown
NoError == [name |-> "none"]

\* new Error(message): a plain Error has a message and no `code` property;
\* the variable parts of a message (the offending value) are left out
Error(message) == [name |-> "Error", message |-> message]

\* new MarketException(message, code): a BadRequestException with `code`
\* variant: the code is kept in the message only
MarketException_NoCode(code) == [name |-> "MarketException", status |-> 400, message |-> code]

MarketException(code) == [name |-> "MarketException", status |-> 400, code |-> code]

----------------------------------------------------------------------------
(* DecimalUtil *)

\* toDecimal(value) throws for NaN and for Infinity
ToDecimalThrows(value) == ~IsFiniteNumber(value)

InvalidNumberMessage(value) ==
    IF value = NaN THEN "Invalid number: NaN" ELSE "Invalid number: Infinity"

RECURSIVE Normalize(_)
Normalize(x) ==
    IF x.m = 0 THEN [m |-> 0, e |-> 0]
    ELSE IF x.e > 0 /\ x.m % 10 = 0
         THEN Normalize([m |-> x.m \div 10, e |-> x.e - 1])
         ELSE x

Dec(m, e) == Normalize([m |-> m, e |-> e])

\* coefficient of x when written with e decimal digits (e >= x.e)
Coef(x, e) == x.m * Pow10(e - x.e)

IsZero(x) == x.m = 0

Plus(a, b) ==
    LET e == Max2(a.e, b.e) IN Dec(Coef(a, e) + Coef(b, e), e)

Minus(a, b) ==
    LET e == Max2(a.e, b.e) IN Dec(Coef(a, e) - Coef(b, e), e)

LessThanOrEqualTo(a, b) ==
    LET e == Max2(a.e, b.e) IN Coef(a, e) <= Coef(b, e)

DecAbs(a) == [m |-> Abs(a.m), e |-> a.e]

\* decimal.toDecimalPlaces(dp, Decimal.ROUND_HALF_EVEN)
ToDecimalPlacesHalfEven(x, dp) ==
    IF x.e <= dp THEN x
    ELSE Dec(RoundHalfEvenDiv(x.m, Pow10(x.e - dp)), dp)

\* variant: the upper limit of the precision is excluded
RoundThrows_UpperExcluded(p) == p < 0 \/ p >= 28

RoundThrows(p) == p < 0 \/ p > 28

Round(value, p) == ToDecimalPlacesHalfEven(value, p)

Multiply(a, b) == Dec(a.m * b.m, a.e + b.e)

DivideThrows(divisor) == IsZero(divisor)

\* dividend.dividedBy(divisor).toDecimalPlaces(p, Decimal.ROUND_HALF_UP)
Divide(dividend, divisor, p) ==
    Dec(RoundHalfUpDiv(dividend.m * Pow10(p + divisor.e),
                       divisor.m * Pow10(dividend.e)), p)

RECURSIVE Sum(_)
Sum(values) ==
    IF values = <<>> THEN Dec(0, 0)
    ELSE Plus(Sum(SubSeq(values, 1, Len(values) - 1)), values[Len(values)])

Equals(a, b, tolerance) == LessThanOrEqualTo(DecAbs(Minus(a, b)), tolerance)

VerifyTotalAccuracy(accumulated, expected, tolerance) ==
    Equals(accumulated, expected, tolerance)

----------------------------------------------------------------------------
(* OrderSplitter *)

\* priceFn(item.symbol, item.price): the caller's resolver; an item of the
\* model carries the price the resolver returns for it
PriceFn(item) == item.price

\* mutant: the last amount is rounded to cents like the others
ItemAmount_RoundLast(tot, item, index, len, allocatedTotal) ==
    IF index = len
    THEN Round(Minus(tot, allocatedTotal), 2)
    ELSE Round(Multiply(tot, item.weight), 2)

\* mutant: the remainder goes to the item before the last (off by one)
ItemAmount_RemainderEarly(tot, item, index, len, allocatedTotal) ==
    IF index = len - 1
    THEN Minus(tot, allocatedTotal)
    ELSE Round(Multiply(tot, item.weight), 2)

\* mutant: the running total is rounded instead of the item's own share
ItemAmount_RoundRunningTotal(tot, item, index, len, allocatedTotal) ==
    IF index = len
    THEN Minus(tot, allocatedTotal)
    ELSE Minus(Round(Plus(allocatedTotal, Multiply(tot, item.weight)), 2),
               allocatedTotal)

\* mutant: the last item gets its rounded share like the others, no remainder
ItemAmount_ShareForLast(tot, item, index, len, allocatedTotal) ==
    Round(Multiply(tot, item.weight), 2)

\* mutant: the weight is left out of the share of the items before the last
ItemAmount_WeightIgnored(tot, item, index, len, allocatedTotal) ==
    IF index = len
    THEN Minus(tot, allocatedTotal)
    ELSE Round(tot, 2)

\* the amount of the item at position index (1-based) of a portfolio of
\* len items, given the amounts accumulated before it
ItemAmount(tot, item, index, len, allocatedTotal) ==
    IF index = len
    THEN Minus(tot, allocatedTotal)
    ELSE Round(Multiply(tot, item.weight), 2)

\* mutant: an item whose price is zero is left out instead of failing the call
RECURSIVE SplitMap_SkipZeroPrice(_, _, _, _, _, _)
SplitMap_SkipZeroPrice(tot, pf, prec, index, allocatedTotal, acc) ==
    IF index > Len(pf) THEN [error |-> "none", orders |-> acc]
    ELSE LET item == pf[index]
             price == PriceFn(item)
             amount == ItemAmount(tot, item, index, Len(pf), allocatedTotal)
             allocated == IF index = Len(pf) THEN allocatedTotal
                          ELSE Plus(allocatedTotal, amount)
         IN IF DivideThrows(price)
            THEN SplitMap_SkipZeroPrice(tot, pf, prec, index + 1, allocatedTotal, acc)
            ELSE SplitMap_SkipZeroPrice(tot, pf, prec, index + 1, allocated,
                          Append(acc, [symbol |-> item.symbol,
                                       amount |-> amount,
                                       price |-> price,
                                       quantity |-> Divide(amount, price, prec)]))

\* the callback of portfolio.map, applied from position index on
RECURSIVE SplitMap(_, _, _, _, _, _)
SplitMap(tot, pf, prec, index, allocatedTotal, acc) ==
    IF index > Len(pf) THEN [error |-> "none", orders |-> acc]
    ELSE LET item == pf[index]
             price == PriceFn(item)
             amount == ItemAmount(tot, item, index, Len(pf), allocatedTotal)
             allocated == IF index = Len(pf) THEN allocatedTotal
                          ELSE Plus(allocatedTotal, amount)
         IN IF ToDecimalThrows(tot)
            THEN [error |-> InvalidNumberMessage(tot), orders |-> <<>>]
            ELSE IF index # Len(pf) /\ ToDecimalThrows(item.weight)
            THEN [error |-> InvalidNumberMessage(item.weight), orders |-> <<>>]
            ELSE IF ToDecimalThrows(price)
            THEN [error |-> InvalidNumberMessage(price), orders |-> <<>>]
            ELSE IF DivideThrows(price)
            THEN [error |-> "Division by zero", orders |-> <<>>]
            ELSE SplitMap(tot, pf, prec, index + 1, allocated,
                          Append(acc, [symbol |-> item.symbol,
                                       amount |-> amount,
                                       price |-> price,
                                       quantity |-> Divide(amount, price, prec)]))

Amounts(os) == [i \in 1..Len(os) |-> os[i].amount]

Tolerance == Dec(1, 2)

SplitResult(tot, pf, prec) ==
    LET mapped == SplitMap(tot, pf, prec, 1, Dec(0, 0), <<>>)
        calculatedTotal == Sum(Amounts(mapped.orders))
    IN IF mapped.error # "none" THEN mapped
       ELSE IF ToDecimalThrows(tot)
            THEN [error |-> InvalidNumberMessage(tot), orders |-> <<>>]
       ELSE IF ~VerifyTotalAccuracy(calculatedTotal, tot, Tolerance)
            THEN [error |-> "Order split calculation error", orders |-> <<>>]
            ELSE [error |-> "ok", orders |-> mapped.orders]

----------------------------------------------------------------------------
(* Inputs of split *)

Symbols == <<"AAPL", "TSLA", "MSFT", "GOOGL", "AMZN">>

\* 0, 0.005, 0.015, 1
Weights == {Dec(0, 0), Dec(5, 3), Dec(15, 3), Dec(1, 0)}

\* -2, 0, 2
Prices == {Dec(-2, 0), Dec(0, 0), Dec(2, 0)}

\* 0.10, 1.00, 1.005
Totals == {Dec(1, 1), Dec(1, 0), Dec(1005, 3)}

Portfolios ==
    UNION {
        { [i \in 1..n |-> [symbol |-> Symbols[i], weight |-> w[i], price |-> p[i]]] :
            w \in [1..n -> Weights], p \in [1..n -> Prices] }
        : n \in 0..MaxItems }

Split ==
    /\ outcome = "idle"
    /\ LET r == SplitResult(total, portfolio, precision)
       IN /\ outcome' = r.error
          /\ orders' = r.orders
          /\ thrown' = IF r.error = "ok" THEN NoError ELSE Error(r.error)
    /\ UNCHANGED <<total, portfolio, precision>>
    /\ UNCHANGED <<marketVars, decimalVars, serviceVars>>

----------------------------------------------------------------------------
(* Calendar arithmetic of Date: day numbers count from 1970-01-01 *)

HMS(h, m, sec) == h * 3600 + m * 60 + sec

SecondsPerDay == HMS(24, 0, 0)

DaysFromCivil(y, m, d) ==
    LET yy == IF m <= 2 THEN y - 1 ELSE y
        era == yy \div 400
        yoe == yy - era * 400
        mp == IF m > 2 THEN m - 3 ELSE m + 9
        doy == (153 * mp + 2) \div 5 + d - 1
        doe == yoe * 365 + yoe \div 4 - yoe \div 100 + doy
    IN era * 146097 + doe - 719468

\* <<year, month, day>> of a day number, month 1..12
CivilFromDays(z) ==
    LET zz == z + 719468
        era == zz \div 146097
        doe == zz - era * 146097
        yoe == (doe - doe \div 1460 + doe \div 36524 - doe \div 146096) \div 365
        doy == doe - (365 * yoe + yoe \div 4 - yoe \div 100)
        mp == (5 * doy + 2) \div 153
        d == doy - (153 * mp + 2) \div 5 + 1
        m == IF mp < 10 THEN mp + 3 ELSE mp - 9
        y == yoe + era * 400
    IN <<IF m <= 2 THEN y + 1 ELSE y, m, d>>

\* Date.getDay(): 0 = Sunday .. 6 = Saturday
GetDay(day) == (day + 4) % 7

\* the n-th Sunday of month m of year y, as a day number
NthSunday(y, m, n) ==
    LET first == DaysFromCivil(y, m, 1)
    IN first + ((7 - GetDay(first)) % 7) + 7 * (n - 1)

\* UTC offset of America/New_York at an instant: daylight time from the
\* second Sunday of March, 02:00 EST, to the first Sunday of November,
\* 02:00 EDT
\* variant: Eastern Time without daylight time
ETOffset_AlwaysStandard(inst) == -HMS(5, 0, 0)

ETOffset(inst) ==
    LET y == CivilFromDays(inst \div SecondsPerDay)[1]
        dstStart == NthSunday(y, 3, 2) * SecondsPerDay + HMS(7, 0, 0)
        dstEnd == NthSunday(y, 11, 1) * SecondsPerDay + HMS(6, 0, 0)
    IN IF dstStart <= inst /\ inst < dstEnd THEN -HMS(4, 0, 0) ELSE -HMS(5, 0, 0)

----------------------------------------------------------------------------
(* MarketPolicy *)

MARKET_HOLIDAYS == {
    <<2024, 1, 1>>, <<2024, 1, 15>>, <<2024, 2, 19>>, <<2024, 3, 29>>, <<2024, 5, 27>>,
    <<2024, 6, 19>>, <<2024, 7, 4>>, <<2024, 9, 2>>, <<2024, 11, 28>>, <<2024, 12, 25>>,
    <<2025, 1, 1>>, <<2025, 1, 20>>, <<2025, 2, 17>>, <<2025, 4, 18>>, <<2025, 5, 26>>,
    <<2025, 6, 19>>, <<2025, 7, 4>>, <<2025, 9, 1>>, <<2025, 11, 27>>, <<2025, 12, 25>>,
    <<2026, 1, 1>>, <<2026, 1, 19>>, <<2026, 2, 16>>, <<2026, 4, 3>>, <<2026, 5, 25>>,
    <<2026, 6, 19>>, <<2026, 7, 4>>, <<2026, 9, 7>>, <<2026, 11, 26>>, <<2026, 12, 25>> }

MARKET_OPEN_HOUR == 9
MARKET_OPEN_MINUTE == 30
MARKET_CLOSE_HOUR == 16
MARKET_CLOSE_MINUTE == 0

\* the Date whose wall-clock fields are the Eastern-Time wall clock of the
\* instant: [day |-> calendar day, tod |-> seconds since midnight]
GetETDate(inst) ==
    LET wall == inst + ETOffset(inst)
    IN [day |-> wall \div SecondsPerDay, tod |-> wall % SecondsPerDay]

\* the calendar day of the instant in the local timezone
LocalDay(inst, tz) == (inst + tz) \div SecondsPerDay

\* "YYYY-MM-DD", as the triple of its numbers
FormatETDate(day) == CivilFromDays(day)

FormatLocalDate(day) == CivilFromDays(day)

\* mutant: Saturday counts as a weekday
IsWeekday_SaturdayIncluded(dayOfWeek) == dayOfWeek >= 1 /\ dayOfWeek <= 6

IsWeekday(dayOfWeek) == dayOfWeek >= 1 /\ dayOfWeek <= 5

OpenTimeInSeconds == MARKET_OPEN_HOUR * 3600 + MARKET_OPEN_MINUTE * 60

CloseTimeInSeconds == MARKET_CLOSE_HOUR * 3600 + MARKET_CLOSE_MINUTE * 60

IsMarketCurrentlyOpen(etDate) ==
    IF ~IsWeekday(GetDay(etDate.day)) THEN FALSE
    ELSE IF FormatETDate(etDate.day) \in MARKET_HOLIDAYS THEN FALSE
    ELSE etDate.tod >= OpenTimeInSeconds /\ etDate.tod < CloseTimeInSeconds

\* mutant: the holiday table is not consulted
IsMarketClosedDayLocal_WeekendOnly(localDay) ==
    IF ~IsWeekday(GetDay(localDay)) THEN TRUE
    ELSE FALSE

IsMarketClosedDayLocal(localDay) ==
    IF ~IsWeekday(GetDay(localDay)) THEN TRUE
    ELSE IF FormatLocalDate(localDay) \in MARKET_HOLIDAYS THEN TRUE
    ELSE FALSE

\* while (isMarketClosedDayLocal(nextDate)) nextDate.setDate(getDate() + 1)
RECURSIVE SkipClosedDays(_)
SkipClosedDays(day) ==
    IF IsMarketClosedDayLocal(day) THEN SkipClosedDays(day + 1)
    ELSE day

\* mutant: the open branch returns the Eastern-Time date
NextExecutionDate_ETDate(inst, tz) ==
    LET etDate == GetETDate(inst)
        localDay == LocalDay(inst, tz)
    IN IF IsMarketCurrentlyOpen(etDate)
       THEN FormatETDate(etDate.day)
       ELSE FormatLocalDate(SkipClosedDays(localDay + 1))

\* mutant: the closed branch starts its search at the local date itself
NextExecutionDate_FromToday(inst, tz) ==
    LET etDate == GetETDate(inst)
        localDay == LocalDay(inst, tz)
    IN IF IsMarketCurrentlyOpen(etDate)
       THEN FormatLocalDate(localDay)
       ELSE FormatLocalDate(SkipClosedDays(localDay))

NextExecutionDate(inst, tz) ==
    LET etDate == GetETDate(inst)
        localDay == LocalDay(inst, tz)
    IN IF IsMarketCurrentlyOpen(etDate)
       THEN FormatLocalDate(localDay)
       ELSE FormatLocalDate(SkipClosedDays(localDay + 1))

\* mutant: 16:00:00 is rejected as late (exclusive upper bound)
ValidateMarketTimeSlot_ExclusiveClose(inst) ==
    LET timeInSeconds == GetETDate(inst).tod
    IN IF timeInSeconds < OpenTimeInSeconds THEN "MARKET_CLOSED_EARLY"
       ELSE IF timeInSeconds >= CloseTimeInSeconds THEN "MARKET_CLOSED_LATE"
       ELSE "ok"

ValidateMarketTimeSlot(inst) ==
    LET timeInSeconds == GetETDate(inst).tod
    IN IF timeInSeconds < OpenTimeInSeconds THEN "MARKET_CLOSED_EARLY"
       ELSE IF timeInSeconds > CloseTimeInSeconds THEN "MARKET_CLOSED_LATE"
       ELSE "ok"

\* mutant: 16:00:00 counts as open (inclusive upper bound)
IsMarketTimeOpen_InclusiveClose(inst) ==
    LET timeInSeconds == GetETDate(inst).tod
    IN timeInSeconds >= OpenTimeInSeconds /\ timeInSeconds <= CloseTimeInSeconds

IsMarketTimeOpen(inst) ==
    LET timeInSeconds == GetETDate(inst).tod
    IN timeInSeconds >= OpenTimeInSeconds /\ timeInSeconds < CloseTimeInSeconds

\* variant: the holiday list is consulted before the day of the week
ValidateMarketOpen_HolidayFirst(inst) ==
    LET etDate == GetETDate(inst)
    IN IF FormatETDate(etDate.day) \in MARKET_HOLIDAYS THEN "MARKET_CLOSED_HOLIDAY"
       ELSE IF ~IsWeekday(GetDay(etDate.day)) THEN "MARKET_CLOSED_WEEKEND"
       ELSE "ok"

ValidateMarketOpen(inst) ==
    LET etDate == GetETDate(inst)
    IN IF ~IsWeekday(GetDay(etDate.day)) THEN "MARKET_CLOSED_WEEKEND"
       ELSE IF FormatETDate(etDate.day) \in MARKET_HOLIDAYS THEN "MARKET_CLOSED_HOLIDAY"
       ELSE "ok"

----------------------------------------------------------------------------
(* Inputs of the calendar operations *)

\* number of consecutive UTC days, from 2024-01-01, the instants are taken in
NumDays == 1096

FirstDay == DaysFromCivil(2024, 1, 1)

\* UTC times of day: around 09:30 and 16:00 Eastern under both offsets, and
\* times at which the Eastern or the local date differs from the UTC date,
\* and 01:30 Eastern in the hour that is repeated when daylight time ends
TimesOfDay == {
    HMS(2, 0, 0), HMS(5, 30, 0), HMS(6, 30, 0), HMS(12, 0, 0),
    HMS(13, 29, 59), HMS(13, 30, 0), HMS(14, 29, 59), HMS(14, 30, 0),
    HMS(17, 0, 0),
    HMS(19, 59, 59), HMS(20, 0, 0), HMS(20, 0, 1),
    HMS(20, 59, 59), HMS(21, 0, 0), HMS(21, 0, 1),
    HMS(23, 30, 0) }

Instants ==
    { d * SecondsPerDay + t : d \in FirstDay..(FirstDay + NumDays - 1), t \in TimesOfDay }

\* local timezones of the process: UTC-8, UTC, UTC+10 (no daylight time)
TzOffsets == { -HMS(8, 0, 0), 0, HMS(10, 0, 0) }

CallNextExecutionDate ==
    /\ marketOp = "idle"
    /\ \E inst \in Instants, tz \in TzOffsets :
         /\ instant' = inst
         /\ tzOffset' = tz
         /\ marketOp' = "nextExecutionDate"
         /\ marketResult' = NextExecutionDate(inst, tz)
         /\ callLog' = callLog
    /\ thrown' = NoError
    /\ UNCHANGED <<splitVars, decimalVars, serviceVars, nextDate, iterations>>

CallValidateMarketTimeSlot ==
    /\ marketOp = "idle"
    /\ \E inst \in Instants, tz \in TzOffsets :
         /\ instant' = inst
         /\ tzOffset' = tz
         /\ marketOp' = "validateMarketTimeSlot"
         /\ marketResult' = ValidateMarketTimeSlot(inst)
         /\ callLog' = callLog
    /\ thrown' = IF marketResult' = "ok" THEN NoError ELSE MarketException(marketResult')
    /\ UNCHANGED <<splitVars, decimalVars, serviceVars, nextDate, iterations>>

CallIsMarketTimeOpen ==
    /\ marketOp = "idle"
    /\ \E inst \in Instants, tz \in TzOffsets :
         /\ instant' = inst
         /\ tzOffset' = tz
         /\ marketOp' = "isMarketTimeOpen"
         /\ marketResult' = IsMarketTimeOpen(inst)
         /\ callLog' = callLog
    /\ thrown' = NoError
    /\ UNCHANGED <<splitVars, decimalVars, serviceVars, nextDate, iterations>>

CallValidateMarketOpen ==
    /\ marketOp = "idle"
    /\ \E inst \in Instants, tz \in TzOffsets :
         /\ instant' = inst
         /\ tzOffset' = tz
         /\ marketOp' = "validateMarketOpen"
         /\ marketResult' = ValidateMarketOpen(inst)
         /\ callLog' = callLog
    /\ thrown' = IF marketResult' = "ok" THEN NoError ELSE MarketException(marketResult')
    /\ UNCHANGED <<splitVars, decimalVars, serviceVars, nextDate, iterations>>

\* the loop of nextExecutionDate is followed for at most this many days
MaxIterations == 6

\* UTC times of day of the calls followed through the loop: the market
\* closed early, open, closed late
LoopTimes == { HMS(2, 0, 0), HMS(17, 0, 0), HMS(23, 30, 0) }

LoopInstants ==
    { d * SecondsPerDay + t : d \in FirstDay..(FirstDay + NumDays - 1), t \in LoopTimes }

\* nextExecutionDate(date) up to the loop: the open branch returns, the
\* closed branch sets nextDate to the day after the local date
EnterNextExecutionDate ==
    /\ marketOp = "idle"
    /\ \E inst \in LoopInstants, tz \in TzOffsets :
         /\ instant' = inst
         /\ tzOffset' = tz
         /\ IF IsMarketCurrentlyOpen(GetETDate(inst))
            THEN /\ marketOp' = "nextExecutionDate"
                 /\ marketResult' = FormatLocalDate(LocalDay(inst, tz))
                 /\ nextDate' = nextDate
            ELSE /\ marketOp' = "nextExecutionDate.loop"
                 /\ marketResult' = marketResult
                 /\ nextDate' = LocalDay(inst, tz) + 1
    /\ iterations' = 0
    /\ thrown' = NoError
    /\ UNCHANGED <<callLog, splitVars, decimalVars, serviceVars>>

\* variant: the body of the loop leaves nextDate where it is
SkipDay_NoAdvance ==
    /\ marketOp = "nextExecutionDate.loop"
    /\ iterations < MaxIterations
    /\ IsMarketClosedDayLocal(nextDate)
    /\ nextDate' = nextDate
    /\ iterations' = iterations + 1
    /\ UNCHANGED <<instant, tzOffset, marketOp, marketResult, callLog, thrown,
                   splitVars, decimalVars, serviceVars>>

\* one turn of the loop: isMarketClosedDayLocal(nextDate) holds and the body
\* moves nextDate to the next day
SkipDay ==
    /\ marketOp = "nextExecutionDate.loop"
    /\ iterations < MaxIterations
    /\ IsMarketClosedDayLocal(nextDate)
    /\ nextDate' = nextDate + 1
    /\ iterations' = iterations + 1
    /\ UNCHANGED <<instant, tzOffset, marketOp, marketResult, callLog, thrown,
                   splitVars, decimalVars, serviceVars>>

\* the loop ends: isMarketClosedDayLocal(nextDate) is false and nextDate is
\* returned
ReturnNextDate ==
    /\ marketOp = "nextExecutionDate.loop"
    /\ ~IsMarketClosedDayLocal(nextDate)
    /\ marketOp' = "nextExecutionDate"
    /\ marketResult' = FormatLocalDate(nextDate)
    /\ UNCHANGED <<instant, tzOffset, nextDate, iterations, callLog, thrown,
                   splitVars, decimalVars, serviceVars>>

LoopNext ==
    \/ EnterNextExecutionDate
    \/ SkipDay
    \/ ReturnNextDate

\* number of calls made on one Date object
MaxCalls == 3

\* the Date objects the repeated calls are made on: the week of Monday
\* 2024-07-01 (a holiday on Thursday, a weekend) at each time of day
CalendarInstants ==
    { d * SecondsPerDay + t :
        d \in DaysFromCivil(2024, 7, 1)..DaysFromCivil(2024, 7, 7), t \in TimesOfDay }

\* variant: the day is advanced on the argument itself, not on a copy
DateAfterNextExecutionDate_Advanced(inst, tz) ==
    IF IsMarketCurrentlyOpen(GetETDate(inst)) THEN inst
    ELSE SkipClosedDays(LocalDay(inst, tz) + 1) * SecondsPerDay - tz

\* the instant the argument holds after nextExecutionDate(date): the days
\* are advanced on nextDate, a new Date, and date is only read
DateAfterNextExecutionDate(inst, tz) == inst

\* the instant the argument holds after the three other operations, which
\* read it through getETDate(date) only
DateAfterValidation(inst) == inst

\* nextExecutionDate(date) on the same Date object once more
AgainNextExecutionDate ==
    /\ marketOp # "idle"
    /\ Len(callLog) < MaxCalls
    /\ marketOp' = "nextExecutionDate"
    /\ marketResult' = NextExecutionDate(instant, tzOffset)
    /\ instant' = DateAfterNextExecutionDate(instant, tzOffset)
    /\ callLog' = Append(callLog, [op |-> marketOp', result |-> marketResult'])
    /\ thrown' = NoError
    /\ UNCHANGED <<tzOffset, splitVars, decimalVars, serviceVars, nextDate, iterations>>

AgainValidateMarketTimeSlot ==
    /\ marketOp # "idle"
    /\ Len(callLog) < MaxCalls
    /\ marketOp' = "validateMarketTimeSlot"
    /\ marketResult' = ValidateMarketTimeSlot(instant)
    /\ instant' = DateAfterValidation(instant)
    /\ callLog' = Append(callLog, [op |-> marketOp', result |-> marketResult'])
    /\ thrown' = IF marketResult' = "ok" THEN NoError ELSE MarketException(marketResult')
    /\ UNCHANGED <<tzOffset, splitVars, decimalVars, serviceVars, nextDate, iterations>>

AgainIsMarketTimeOpen ==
    /\ marketOp # "idle"
    /\ Len(callLog) < MaxCalls
    /\ marketOp' = "isMarketTimeOpen"
    /\ marketResult' = IsMarketTimeOpen(instant)
    /\ instant' = DateAfterValidation(instant)
    /\ callLog' = Append(callLog, [op |-> marketOp', result |-> marketResult'])
    /\ thrown' = NoError
    /\ UNCHANGED <<tzOffset, splitVars, decimalVars, serviceVars, nextDate, iterations>>

AgainValidateMarketOpen ==
    /\ marketOp # "idle"
    /\ Len(callLog) < MaxCalls
    /\ marketOp' = "validateMarketOpen"
    /\ marketResult' = ValidateMarketOpen(instant)
    /\ instant' = DateAfterValidation(instant)
    /\ callLog' = Append(callLog, [op |-> marketOp', result |-> marketResult'])
    /\ thrown' = IF marketResult' = "ok" THEN NoError ELSE MarketException(marketResult')
    /\ UNCHANGED <<tzOffset, splitVars, decimalVars, serviceVars, nextDate, iterations>>

CalendarNext ==
    \/ AgainNextExecutionDate
    \/ AgainValidateMarketTimeSlot
    \/ AgainIsMarketTimeOpen
    \/ AgainValidateMarketOpen

MarketNext ==
    \/ CallNextExecutionDate
    \/ CallValidateMarketTimeSlot
    \/ CallIsMarketTimeOpen
    \/ CallValidateMarketOpen


----------------------------------------------------------------------------
(* Calls of DecimalUtil *)

\* how far below 0 and above 28 the precisions of the calls of round go
PrecisionMargin == 2

Precisions == (0 - PrecisionMargin)..(28 + PrecisionMargin)

\* 0, 0.5, 1.5, 2.5, -0.5, -1.5, 0.125, 0.6666, 0.0001, 1.005, 1.015, 2.675,
\* 100, NaN, Infinity
DecimalValues == {
    Dec(0, 0), Dec(5, 1), Dec(15, 1), Dec(25, 1), Dec(0 - 5, 1), Dec(0 - 15, 1),
    Dec(125, 3), Dec(6666, 4), Dec(1, 4), Dec(1005, 3), Dec(1015, 3), Dec(2675, 3),
    Dec(100, 0), NaN, Infinity }

\* toDecimal(value)
CallToDecimal ==
    /\ decOp = "idle"
    /\ \E value \in DecimalValues :
         /\ decOp' = "toDecimal"
         /\ decArgs' = <<value>>
         /\ IF ToDecimalThrows(value)
            THEN /\ thrown' = Error(InvalidNumberMessage(value))
                 /\ decResult' = Undefined
            ELSE /\ thrown' = NoError
                 /\ decResult' = value
    /\ UNCHANGED <<splitVars, marketVars, serviceVars>>

\* round(value, precision)
CallRound ==
    /\ decOp = "idle"
    /\ \E value \in DecimalValues, p \in Precisions :
         /\ decOp' = "round"
         /\ decArgs' = <<value, p>>
         /\ IF RoundThrows(p)
            THEN /\ thrown' = Error("Precision must be between 0 and 28")
                 /\ decResult' = Undefined
            ELSE IF ToDecimalThrows(value)
            THEN /\ thrown' = Error(InvalidNumberMessage(value))
                 /\ decResult' = Undefined
            ELSE /\ thrown' = NoError
                 /\ decResult' = Round(value, p)
    /\ UNCHANGED <<splitVars, marketVars, serviceVars>>

\* divide(dividend, divisor, precision)
CallDivide ==
    /\ decOp = "idle"
    /\ \E dividend \in DecimalValues, divisor \in DecimalValues, p \in 0..MaxPrecision :
         /\ decOp' = "divide"
         /\ decArgs' = <<dividend, divisor, p>>
         /\ IF ToDecimalThrows(dividend)
            THEN /\ thrown' = Error(InvalidNumberMessage(dividend))
                 /\ decResult' = Undefined
            ELSE IF ToDecimalThrows(divisor)
            THEN /\ thrown' = Error(InvalidNumberMessage(divisor))
                 /\ decResult' = Undefined
            ELSE IF DivideThrows(divisor)
            THEN /\ thrown' = Error("Division by zero")
                 /\ decResult' = Undefined
            ELSE /\ thrown' = NoError
                 /\ decResult' = Divide(dividend, divisor, p)
    /\ UNCHANGED <<splitVars, marketVars, serviceVars>>

DecimalNext ==
    \/ CallToDecimal
    \/ CallRound
    \/ CallDivide

----------------------------------------------------------------------------
(* AppConfig, PricingStrategy, exceptions of the service *)

FIXED_PRICE == Dec(100, 0)

SHARE_DECIMAL_PRECISION == 3

\* PricingStrategy.getPrice(symbol, override)
GetPrice(override) ==
    IF override # Undefined /\ override # NaN /\ override.m > 0
    THEN override
    ELSE FIXED_PRICE

OrderValidationException(code) ==
    [name |-> "OrderValidationException", status |-> 400, code |-> code]

PersistenceException(code) ==
    [name |-> "PersistenceException", status |-> 500, code |-> code]

\* new ConflictException({ statusCode: 409, code: 'DUPLICATE_REQUEST' })
ConflictException(code) ==
    [name |-> "ConflictException", status |-> 409, code |-> code]

----------------------------------------------------------------------------
(* IdempotencyStore *)

TTL_MS == 24 * 60 * 60 * 1000

\* variant: a key goes as soon as it is TTL_MS old
CleanupExpiredKeys_AtTTL(ks, ts, nowMs) ==
    LET expired == { k \in DOMAIN ts : nowMs - ts[k] >= TTL_MS }
    IN [keys |-> ks \ expired,
        keyTimestamps |-> [k \in (DOMAIN ts) \ expired |-> ts[k]]]

\* cleanupExpiredKeys(): a key goes when it is older than TTL_MS
CleanupExpiredKeys(ks, ts, nowMs) ==
    LET expired == { k \in DOMAIN ts : nowMs - ts[k] > TTL_MS }
    IN [keys |-> ks \ expired,
        keyTimestamps |-> [k \in (DOMAIN ts) \ expired |-> ts[k]]]

\* variant: a rejected check restarts the 24 hours of the key
IdempotencyCheck_RefreshOnReject(key, ks, ts, nowMs) ==
    IF key = ""
    THEN [error |-> NoError, keys |-> ks, keyTimestamps |-> ts]
    ELSE LET c == CleanupExpiredKeys(ks, ts, nowMs)
         IN [error |-> IF key \in c.keys
                       THEN ConflictException("DUPLICATE_REQUEST") ELSE NoError,
             keys |-> c.keys \cup {key},
             keyTimestamps |-> [k \in (DOMAIN c.keyTimestamps) \cup {key} |->
                                   IF k = key THEN nowMs ELSE c.keyTimestamps[k]]]

\* variant: the key is tested and left unregistered
IdempotencyCheck_TestOnly(key, ks, ts, nowMs) ==
    IF key = ""
    THEN [error |-> NoError, keys |-> ks, keyTimestamps |-> ts]
    ELSE LET c == CleanupExpiredKeys(ks, ts, nowMs)
         IN IF key \in c.keys
            THEN [error |-> ConflictException("DUPLICATE_REQUEST"),
                  keys |-> c.keys, keyTimestamps |-> c.keyTimestamps]
            ELSE [error |-> NoError,
                  keys |-> c.keys, keyTimestamps |-> c.keyTimestamps]

\* check(key): the store after the call and the error it throws; the empty
\* string stands for a missing header too (both are falsy)
IdempotencyCheck(key, ks, ts, nowMs) ==
    IF key = ""
    THEN [error |-> NoError, keys |-> ks, keyTimestamps |-> ts]
    ELSE LET c == CleanupExpiredKeys(ks, ts, nowMs)
         IN IF key \in c.keys
            THEN [error |-> ConflictException("DUPLICATE_REQUEST"),
                  keys |-> c.keys, keyTimestamps |-> c.keyTimestamps]
            ELSE [error |-> NoError,
                  keys |-> c.keys \cup {key},
                  keyTimestamps |-> [k \in (DOMAIN c.keyTimestamps) \cup {key} |->
                                        IF k = key THEN nowMs ELSE c.keyTimestamps[k]]]

----------------------------------------------------------------------------
(* InMemoryOrderRepository *)

\* variant: the order is pushed before the failure is noticed
RepoSave_PushFirst(repo, order, fails) ==
    IF order.id = 0 \/ fails
    THEN [error |-> PersistenceException("SAVE_ORDER_FAILED"), orders |-> Append(repo, order)]
    ELSE [error |-> NoError, orders |-> Append(repo, order)]

\* save(order): the array after the call and the error the call rejects
\* with; `fails` stands for a failure of the storage while saving
RepoSave(repo, order, fails) ==
    IF order.id = 0 \/ fails
    THEN [error |-> PersistenceException("SAVE_ORDER_FAILED"), orders |-> repo]
    ELSE [error |-> NoError, orders |-> Append(repo, order)]

\* what findById gives when no order has the id
Null == [kind |-> "null"]

\* findById(id): orders.find(o => o.id === id) ?? null, the first match
RepoFindById(repo, id) ==
    IF \E i \in 1..Len(repo) : repo[i].id = id
    THEN repo[CHOOSE i \in 1..Len(repo) :
                 repo[i].id = id /\ \A j \in 1..(i - 1) : repo[j].id # id]
    ELSE Null

\* variant: only the first order with the id is removed
RepoDelete_FirstOnly(repo, id) ==
    IF \E i \in 1..Len(repo) : repo[i].id = id
    THEN LET first == CHOOSE i \in 1..Len(repo) :
                         repo[i].id = id /\ \A j \in 1..(i - 1) : repo[j].id # id
         IN [orders |-> SubSeq(repo, 1, first - 1) \o SubSeq(repo, first + 1, Len(repo)),
             result |-> TRUE]
    ELSE [orders |-> repo, result |-> FALSE]

\* delete(id): orders.filter(o => o.id !== id), and whether the array got
\* shorter
RepoDelete(repo, id) ==
    [orders |-> SelectSeq(repo, LAMBDA o : o.id # id),
     result |-> Len(SelectSeq(repo, LAMBDA o : o.id # id)) < Len(repo)]

\* clear(): this.orders = []
RepoClear(repo) == <<>>

----------------------------------------------------------------------------
(* OrdersService *)

\* the loop over the items of validatePortfolio, from position i on
RECURSIVE ValidateItems(_, _)
ValidateItems(pf, i) ==
    IF i > Len(pf) THEN "ok"
    ELSE LET item == pf[i]
         IN IF item.symbol = "" THEN "EMPTY_SYMBOL"
            ELSE IF IsFiniteNumber(item.weight) /\ item.weight.m < 0
            THEN "NEGATIVE_WEIGHT"
            ELSE IF item.price # Undefined /\ IsFiniteNumber(item.price)
                    /\ item.price.m <= 0
            THEN "INVALID_PRICE"
            ELSE ValidateItems(pf, i + 1)

\* reduce((sum, item) => sum + item.weight, 0): NaN once a weight is NaN
RECURSIVE TotalWeight(_)
TotalWeight(pf) ==
    IF pf = <<>> THEN Dec(0, 0)
    ELSE LET rest == TotalWeight(SubSeq(pf, 1, Len(pf) - 1))
             w == pf[Len(pf)].weight
         IN IF rest = NaN \/ w = NaN THEN NaN
            ELSE IF rest = Infinity \/ w = Infinity THEN Infinity
            ELSE Plus(rest, w)

\* Math.abs(totalWeight - 1) > 0.0001: false for NaN, true for Infinity
WeightSumInvalid(totalWeight) ==
    IF totalWeight = NaN THEN FALSE
    ELSE IF totalWeight = Infinity THEN TRUE
    ELSE ~LessThanOrEqualTo(DecAbs(Minus(totalWeight, Dec(1, 0))), Dec(1, 4))

\* validatePortfolio(dto): "ok" or the code of the exception thrown
ValidatePortfolio(dto) ==
    LET pf == dto.modelPortfolio
    IN IF Len(pf) = 0 THEN "EMPTY_PORTFOLIO"
       ELSE IF ValidateItems(pf, 1) # "ok" THEN ValidateItems(pf, 1)
       ELSE IF WeightSumInvalid(TotalWeight(pf)) THEN "INVALID_WEIGHT_SUM"
       ELSE IF Cardinality({ pf[i].symbol : i \in 1..Len(pf) }) # Len(pf)
            THEN "DUPLICATE_SYMBOLS"
       ELSE "ok"

\* dto.totalAmount <= 0: false for NaN and for Infinity
AmountInvalid(totalAmount) == IsFiniteNumber(totalAmount) /\ totalAmount.m <= 0

\* the instant the process started (Monday 2024-01-22 15:00:00Z, 10:00
\* Eastern) and its timezone (UTC)
ServiceStart == DaysFromCivil(2024, 1, 22) * SecondsPerDay + HMS(15, 0, 0)

ServiceTz == 0

\* the portfolio as OrderSplitter.split sees it: each item with the price
\* the resolver this.pricing.getPrice gives for it
Priced(pf) ==
    [i \in 1..Len(pf) |-> [symbol |-> pf[i].symbol, weight |-> pf[i].weight,
                           price |-> GetPrice(pf[i].price)]]

NoSplitCall == [error |-> "not called", orders |-> <<>>]

\* variant: the total amount is checked after the allocation
ServiceSplitSteps_AmountCheckLast(orderId, nowMs, repo, fails, totalAmount, v, executionDate, r) ==
    LET order == [id |-> orderId, status |-> "Created",
                  executionDate |-> executionDate, orders |-> r.orders,
                  createdAt |-> nowMs]
        saved == RepoSave(repo, order, fails)
    IN IF v # "ok"
       THEN [calls |-> <<"validatePortfolio">>,
             error |-> OrderValidationException(v), order |-> Undefined,
             repo |-> repo, split |-> NoSplitCall]
       ELSE IF r.error # "ok"
       THEN [calls |-> <<"validatePortfolio", "nextExecutionDate", "OrderSplitter.split">>,
             error |-> Error(r.error), order |-> Undefined,
             repo |-> repo, split |-> r]
       ELSE IF AmountInvalid(totalAmount)
       THEN [calls |-> <<"validatePortfolio", "nextExecutionDate", "OrderSplitter.split">>,
             error |-> OrderValidationException("INVALID_AMOUNT"), order |-> Undefined,
             repo |-> repo, split |-> r]
       ELSE [calls |-> <<"validatePortfolio", "nextExecutionDate", "OrderSplitter.split",
                         "repo.save">>,
             error |-> saved.error,
             order |-> IF saved.error = NoError THEN order ELSE Undefined,
             repo |-> saved.orders, split |-> r]

\* the steps of split(dto) in the order the code takes them, given what
\* validatePortfolio (v), MarketPolicy.nextExecutionDate (executionDate) and
\* OrderSplitter.split (r) give when they are called: the collaborators
\* called, the error thrown (NoError when the call returns), the order
\* returned, the repository afterwards, and the result of the call of
\* OrderSplitter.split made
ServiceSplitSteps(orderId, nowMs, repo, fails, totalAmount, v, executionDate, r) ==
    LET order == [id |-> orderId, status |-> "Created",
                  executionDate |-> executionDate, orders |-> r.orders,
                  createdAt |-> nowMs]
        saved == RepoSave(repo, order, fails)
    IN IF v # "ok"
       THEN [calls |-> <<"validatePortfolio">>,
             error |-> OrderValidationException(v), order |-> Undefined,
             repo |-> repo, split |-> NoSplitCall]
       ELSE IF AmountInvalid(totalAmount)
       THEN [calls |-> <<"validatePortfolio">>,
             error |-> OrderValidationException("INVALID_AMOUNT"), order |-> Undefined,
             repo |-> repo, split |-> NoSplitCall]
       ELSE IF r.error # "ok"
       THEN [calls |-> <<"validatePortfolio", "nextExecutionDate", "OrderSplitter.split">>,
             error |-> Error(r.error), order |-> Undefined,
             repo |-> repo, split |-> r]
       ELSE [calls |-> <<"validatePortfolio", "nextExecutionDate", "OrderSplitter.split",
                         "repo.save">>,
             error |-> saved.error,
             order |-> IF saved.error = NoError THEN order ELSE Undefined,
             repo |-> saved.orders, split |-> r]

\* split(dto)
ServiceSplit(dto, orderId, nowMs, repo, fails) ==
    ServiceSplitSteps(orderId, nowMs, repo, fails, dto.totalAmount,
        ValidatePortfolio(dto),
        NextExecutionDate(ServiceStart + nowMs \div 1000, ServiceTz),
        SplitResult(dto.totalAmount, Priced(dto.modelPortfolio),
                    SHARE_DECIMAL_PRECISION))

\* an argument that is not given (limit?, offset?)
Omitted == 0 - 1

\* new Date("YYYY-MM-DD"): midnight UTC of the date
DateOf(civil) == DaysFromCivil(civil[1], civil[2], civil[3]) * SecondsPerDay

\* end.setHours(23, 59, 59, 999): the last second of the local day of the
\* instant
EndOfLocalDay(inst, tz) ==
    LocalDay(inst, tz) * SecondsPerDay - tz + HMS(23, 59, 59)

\* the three filters of history; "" and <<>> stand for a filter not given
ByOrderType(os, orderType) ==
    IF orderType # "" THEN SelectSeq(os, LAMBDA o : o.orderType = orderType) ELSE os

ByPortfolioName(os, portfolioName) ==
    IF portfolioName # ""
    THEN SelectSeq(os, LAMBDA o : o.portfolioName = portfolioName) ELSE os

ByDateRange(os, startDate, endDate) ==
    IF startDate # <<>> \/ endDate # <<>>
    THEN SelectSeq(os, LAMBDA o :
             /\ startDate # <<>> => ~(DateOf(o.executionDate) < DateOf(startDate))
             /\ endDate # <<>> =>
                   ~(DateOf(o.executionDate) > EndOfLocalDay(DateOf(endDate), ServiceTz)))
    ELSE os

\* orders.slice(start, end) for start >= 0 and end >= 0
Slice(os, start, end) ==
    SubSeq(os, start + 1, IF end < Len(os) THEN end ELSE Len(os))

\* the pagination of history: start = offset ?? 0, end = limit ? start +
\* limit : orders.length (a limit of 0 is falsy), and the returned object
Paginate(os, limit, offset) ==
    LET start == IF offset = Omitted THEN 0 ELSE offset
        end == IF limit # Omitted /\ limit # 0 THEN start + limit ELSE Len(os)
    IN [total |-> Len(os),
        limit |-> IF limit = Omitted THEN Len(os) ELSE limit,
        offset |-> start,
        data |-> Slice(os, start, end)]

\* history(limit, offset, orderType, portfolioName, startDate, endDate)
History(repo, limit, offset, orderType, portfolioName, startDate, endDate) ==
    Paginate(ByDateRange(ByPortfolioName(ByOrderType(repo, orderType), portfolioName),
                         startDate, endDate),
             limit, offset)

----------------------------------------------------------------------------
(* OrdersController *)

\* split(dto, key): idempotency.check(key), then service.split(dto), given
\* what the two calls give (checked, served)
ControllerSplitSteps(repo, checked, served) ==
    IF checked.error # NoError
    THEN [calls |-> <<"idempotency.check">>, error |-> checked.error,
          order |-> Undefined, repo |-> repo, split |-> NoSplitCall,
          keys |-> checked.keys, keyTimestamps |-> checked.keyTimestamps]
    ELSE [calls |-> <<"idempotency.check", "service.split">> \o served.calls,
          error |-> served.error, order |-> served.order, repo |-> served.repo,
          split |-> served.split,
          keys |-> checked.keys, keyTimestamps |-> checked.keyTimestamps]

\* split(dto, key) on the state of the store and of the repository
ControllerSplit(key, dto, orderId, nowMs, ks, ts, repo, fails) ==
    ControllerSplitSteps(repo, IdempotencyCheck(key, ks, ts, nowMs),
                         ServiceSplit(dto, orderId, nowMs, repo, fails))

----------------------------------------------------------------------------
(* Requests and the clock *)

MaxRequests == 2
MaxTicks == 1

NoRequest == [key |-> "", dto |-> Undefined]

NoResponse == [kind |-> "none"]

\* values of the Idempotency-Key header; "" is a request without one
RequestKeys == {"", "k1", "k2"}

Item(symbol, weight, price) == [symbol |-> symbol, weight |-> weight, price |-> price]

\* portfolios that pass validatePortfolio: 0.6/0.4 with one price override,
\* and a NaN weight
GoodPortfolios == {
    <<Item("AAPL", Dec(6, 1), Undefined), Item("TSLA", Dec(4, 1), Dec(250, 0))>>,
    <<Item("AAPL", NaN, Undefined), Item("TSLA", Dec(1, 0), Undefined)>> }

\* portfolios that validatePortfolio rejects, one for each check
BadPortfolios == {
    <<>>,
    <<Item("", Dec(1, 0), Undefined)>>,
    <<Item("AAPL", Dec(0 - 5, 1), Undefined), Item("TSLA", Dec(15, 1), Undefined)>>,
    <<Item("AAPL", Dec(1, 0), Dec(0, 0))>>,
    <<Item("AAPL", Dec(6, 1), Undefined), Item("TSLA", Dec(4002, 4), Undefined)>>,
    <<Item("AAPL", Dec(5, 1), Undefined), Item("AAPL", Dec(5, 1), Undefined)>> }

\* total amounts: 100 with each portfolio; 0, -5 and NaN with a good one
Dtos ==
    { [totalAmount |-> Dec(100, 0), modelPortfolio |-> pf] :
        pf \in GoodPortfolios \cup BadPortfolios }
    \cup
    { [totalAmount |-> t, modelPortfolio |-> pf] :
        t \in {Dec(0, 0), Dec(0 - 5, 0), NaN},
        pf \in { <<Item("MSFT", Dec(1, 0), Undefined)>> } }

\* steps of the clock: the lifetime of a key, and one millisecond more
ClockSteps == {TTL_MS, TTL_MS + 1}

\* whether the storage fails while saving: drawn for the requests that
\* get as far as OrderSplitter.split
StorageFailures(dto) ==
    IF ValidatePortfolio(dto) = "ok" /\ ~AmountInvalid(dto.totalAmount)
    THEN BOOLEAN ELSE {FALSE}

\* POST /orders/split: the whole handler
PostSplit ==
    /\ requestCount < MaxRequests
    /\ \E key \in RequestKeys, dto \in Dtos :
       \E fails \in StorageFailures(dto) :
       \E r \in {ControllerSplit(key, dto, requestCount + 1, now, keys,
                                 keyTimestamps, repoOrders, fails)} :
            /\ request' = [key |-> key, dto |-> dto]
            /\ response' = IF r.error = NoError
                           THEN [kind |-> "returned", order |-> r.order]
                           ELSE [kind |-> "thrown", error |-> r.error]
            /\ calls' = r.calls
            /\ keys' = r.keys
            /\ keyTimestamps' = r.keyTimestamps
            /\ repoOrders' = r.repo
            /\ savedFor' = IF Len(r.repo) > Len(repoOrders)
                           THEN Append(savedFor, [key |-> key, at |-> now])
                           ELSE savedFor
            /\ thrown' = r.error
            /\ IF r.split = NoSplitCall
               THEN /\ total' = Dec(0, 0)
                    /\ portfolio' = <<>>
                    /\ precision' = 0
                    /\ outcome' = "done"
                    /\ orders' = <<>>
               ELSE /\ total' = dto.totalAmount
                    /\ portfolio' = Priced(dto.modelPortfolio)
                    /\ precision' = SHARE_DECIMAL_PRECISION
                    /\ outcome' = r.split.error
                    /\ orders' = r.split.orders
    /\ requestCount' = requestCount + 1
    /\ UNCHANGED <<now, tickCount, marketVars, decimalVars,
                   repoLog,
                   history,
                   handlers,
                   retry>>

\* time passes
Tick ==
    /\ tickCount < MaxTicks
    /\ \E step \in ClockSteps : now' = now + step
    /\ tickCount' = tickCount + 1
    /\ UNCHANGED <<splitVars, marketVars, decimalVars, thrown, keys, keyTimestamps,
                   repoOrders, savedFor, request, response, calls, requestCount,
                   repoLog,
                   history,
                   handlers,
                   retry>>

\* arguments of direct calls of OrderSplitter.split: an empty portfolio, a
\* zero price, a NaN weight
DirectCalls == {
    <<Dec(100, 0), <<>>>>,
    <<Dec(100, 0), <<Item("AAPL", Dec(6, 1), Dec(0, 0)), Item("TSLA", Dec(4, 1), Dec(250, 0))>>>>,
    <<Dec(100, 0), <<Item("AAPL", NaN, Dec(100, 0)), Item("TSLA", Dec(4, 1), Dec(250, 0))>>>> }

ServiceNext ==
    \/ PostSplit
    \/ Tick
    \/ Split

----------------------------------------------------------------------------
(* Calls of InMemoryOrderRepository *)

\* number of calls made on the repository
MaxRepoCalls == 4

\* the ids of the calls: 0 stands for the empty id, which save refuses
RepoIds == 0..2

\* an order with the id; createdAt tells two orders of one id apart
OrderOf(id, createdAt) ==
    [id |-> id, status |-> "Created", executionDate |-> <<2024, 1, 22>>,
     orders |-> <<>>, createdAt |-> createdAt]

\* save(order)
RepoCallSave ==
    /\ Len(repoLog) < MaxRepoCalls
    /\ \E id \in RepoIds :
         \E saved \in {RepoSave(repoOrders, OrderOf(id, Len(repoLog)), FALSE)} :
            /\ repoOrders' = saved.orders
            /\ thrown' = saved.error
            /\ repoLog' = Append(repoLog,
                   [op |-> "save", id |-> id, result |-> saved.error = NoError,
                    after |-> saved.orders])
    /\ UNCHANGED <<splitVars, marketVars, decimalVars, now, keys, keyTimestamps,
                   savedFor, request, response, calls, requestCount, tickCount, history, handlers, retry>>

\* findById(id)
RepoCallFindById ==
    /\ Len(repoLog) < MaxRepoCalls
    /\ \E id \in RepoIds :
         repoLog' = Append(repoLog,
             [op |-> "findById", id |-> id, result |-> RepoFindById(repoOrders, id),
              after |-> repoOrders])
    /\ thrown' = NoError
    /\ UNCHANGED <<splitVars, marketVars, decimalVars, now, keys, keyTimestamps,
                   repoOrders, savedFor, request, response, calls, requestCount,
                   tickCount, history, handlers, retry>>

\* delete(id)
RepoCallDelete ==
    /\ Len(repoLog) < MaxRepoCalls
    /\ \E id \in RepoIds :
         \E deleted \in {RepoDelete(repoOrders, id)} :
            /\ repoOrders' = deleted.orders
            /\ repoLog' = Append(repoLog,
                   [op |-> "delete", id |-> id, result |-> deleted.result,
                    after |-> deleted.orders])
    /\ thrown' = NoError
    /\ UNCHANGED <<splitVars, marketVars, decimalVars, now, keys, keyTimestamps,
                   savedFor, request, response, calls, requestCount, tickCount, history, handlers, retry>>

\* clear()
RepoCallClear ==
    /\ Len(repoLog) < MaxRepoCalls
    /\ repoOrders' = RepoClear(repoOrders)
    /\ repoLog' = Append(repoLog,
           [op |-> "clear", id |-> 0, result |-> TRUE, after |-> RepoClear(repoOrders)])
    /\ thrown' = NoError
    /\ UNCHANGED <<splitVars, marketVars, decimalVars, now, keys, keyTimestamps,
                   savedFor, request, response, calls, requestCount, tickCount, history, handlers, retry>>

RepoNext ==
    \/ RepoCallSave
    \/ RepoCallFindById
    \/ RepoCallDelete
    \/ RepoCallClear

----------------------------------------------------------------------------
(* Calls of OrdersService.history *)

\* number of orders in the repository
MaxStored == 3

NoHistory == [limit |-> Omitted]

\* what split stores besides the allocation: the type and the portfolio
\* name of the request and the execution date
OrderKinds ==
    { [orderType |-> "BUY", portfolioName |-> "Growth", executionDate |-> <<2024, 1, 22>>],
      [orderType |-> "SELL", portfolioName |-> "Growth", executionDate |-> <<2024, 1, 23>>],
      [orderType |-> "BUY", portfolioName |-> "Income", executionDate |-> <<2024, 1, 23>>] }

\* the order split stores for a request of the kind
StoredOrder(id, kind) ==
    [id |-> id, portfolioName |-> kind.portfolioName, orderType |-> kind.orderType,
     status |-> "Created", executionDate |-> kind.executionDate, orders |-> <<>>,
     createdAt |-> id]

\* the repositories the calls are made on: up to MaxStored orders, in the
\* order they were saved
StoredOrders ==
    UNION { { [i \in 1..n |-> StoredOrder(i, f[i])] : f \in [1..n -> OrderKinds] } :
            n \in 0..MaxStored }

DateFilters == {<<>>, <<2024, 1, 22>>, <<2024, 1, 23>>}

\* history(...) on the repository
CallHistory ==
    /\ history = NoHistory
    /\ \E limit \in {Omitted} \cup 0..MaxStored, offset \in {Omitted} \cup 0..MaxStored,
          orderType \in {"", "BUY", "SELL"}, portfolioName \in {"", "Growth"},
          startDate \in DateFilters, endDate \in DateFilters :
         history' = [limit |-> limit, offset |-> offset, orderType |-> orderType,
                     portfolioName |-> portfolioName, startDate |-> startDate,
                     endDate |-> endDate,
                     result |-> History(repoOrders, limit, offset, orderType,
                                        portfolioName, startDate, endDate)]
    /\ UNCHANGED <<splitVars, marketVars, decimalVars, thrown, now, keys,
                   keyTimestamps, repoOrders, savedFor, request, response, calls,
                   requestCount, tickCount, repoLog, handlers, retry>>

HistoryNext == CallHistory

----------------------------------------------------------------------------
(* Requests that pass the validation of OrdersService *)

\* 0.03, 0.05, 1, 100
AcceptedTotals == {Dec(3, 2), Dec(5, 2), Dec(1, 0), Dec(100, 0)}

\* 0, 0.25, 0.3333, 0.3334, 0.5, 1, 1.0001
AcceptedWeights ==
    {Dec(0, 0), Dec(25, 2), Dec(3333, 4), Dec(3334, 4), Dec(5, 1), Dec(1, 0), Dec(10001, 4)}

\* the requests of up to MaxItems items over these totals and weights that
\* validatePortfolio and the check of the total amount let through
AcceptedRequests ==
    { dto \in UNION {
          { [totalAmount |-> t,
             modelPortfolio |-> [i \in 1..n |-> Item(Symbols[i], w[i], Undefined)]] :
              t \in AcceptedTotals, w \in [1..n -> AcceptedWeights] }
          : n \in 1..MaxItems } :
        ValidatePortfolio(dto) = "ok" /\ ~AmountInvalid(dto.totalAmount) }

----------------------------------------------------------------------------
(* Retry decorator *)

\* no method is being called through the wrapper
NoRetry == [pc |-> "none"]

\* largest maxAttempts of a decorated method
MaxAttempts == 3

\* Math.pow(b, n) for the integers used here
RECURSIVE Pow(_, _)
Pow(b, n) == IF n <= 0 THEN 1 ELSE b * Pow(b, n - 1)

\* what an attempt can throw: Error objects, and a value that is not one
ThrownString(text) == [name |-> "string", value |-> text]
Throwables == {Error("e1"), Error("e2"), ThrownString("s1")}

\* what an attempt can return
ReturnedValue(text) == [name |-> "value", value |-> text]
ReturnValues == {ReturnedValue("v1"), ReturnedValue("v2")}

\* error instanceof Error ? error : new Error(String(error))
ToError(error) ==
    IF error.name = "string" THEN Error(error.value) ELSE error

\* variant: the delay grows with the attempt number, not with its power
BackoffDelay_Linear(delayMs, backoffMultiplier, attempt) ==
    delayMs * backoffMultiplier * (attempt - 1)

\* delayMs * Math.pow(backoffMultiplier, attempt - 1)
BackoffDelay(delayMs, backoffMultiplier, attempt) ==
    delayMs * Pow(backoffMultiplier, attempt - 1)

\* Retry(options): maxAttempts, delayMs, backoffMultiplier, and onRetry,
\* which is absent, returns, or throws
RetryOptions ==
    [maxAttempts : 0..MaxAttempts, delayMs : {0, 100}, backoffMultiplier : {1, 2, 3},
     onRetry : {"absent", "returns", "throws"}]

\* what onRetry throws when it throws
OnRetryError == Error("onRetry")

\* the wrapper before it is called
Decorated(options) ==
    [pc |-> "decorated", options |-> options, attempt |-> 0, lastError |-> Null,
     attempts |-> <<>>, onRetryCalls |-> <<>>, delays |-> <<>>, result |-> Null]

\* for (attempt...; attempt <= maxAttempts; ...) { try { return await
\* originalMethod.apply(this, args) }: the loop is entered with `attempt`;
\* the method is invoked, or the loop is over and lastError is thrown
LoopTest(r, attempt) ==
    IF attempt <= r.options.maxAttempts
    THEN [r EXCEPT !.pc = "awaitMethod", !.attempt = attempt,
                   !.attempts = Append(r.attempts, [kind |-> "pending"])]
    ELSE [r EXCEPT !.pc = "threw", !.attempt = attempt, !.result = r.lastError]

\* the wrapper is called: attempt = 1
RetryCall ==
    /\ retry.pc = "decorated"
    /\ retry' = LoopTest(retry, 1)
    /\ UNCHANGED <<splitVars, marketVars, decimalVars, thrown, now, keys,
                   keyTimestamps, repoOrders, savedFor, request, response, calls,
                   requestCount, tickCount, repoLog, history, handlers>>

\* the method returned: the wrapper returns its value
RetryReturn ==
    /\ retry.pc = "awaitMethod"
    /\ \E v \in ReturnValues :
          retry' = [retry EXCEPT !.pc = "returned",
                                 !.attempts[retry.attempt] = [kind |-> "returned", value |-> v],
                                 !.result = v]
    /\ UNCHANGED <<splitVars, marketVars, decimalVars, thrown, now, keys,
                   keyTimestamps, repoOrders, savedFor, request, response, calls,
                   requestCount, tickCount, repoLog, history, handlers>>

\* the catch block after a failed attempt that is not the last: the delay
\* is computed, onRetry is called if given, and the timer is started
CatchAndWait(r, error) ==
    LET delay == BackoffDelay(r.options.delayMs, r.options.backoffMultiplier, r.attempt)
        caught == [r EXCEPT !.attempts[r.attempt] = [kind |-> "threw", error |-> error],
                            !.lastError = ToError(error)]
        called == [caught EXCEPT !.onRetryCalls =
                                    Append(r.onRetryCalls,
                                           [attempt |-> r.attempt, error |-> ToError(error)])]
    IN IF r.options.onRetry = "absent"
       THEN [caught EXCEPT !.pc = "sleeping", !.delays = Append(r.delays, delay)]
       ELSE IF r.options.onRetry = "throws"
       THEN [called EXCEPT !.pc = "threw", !.result = OnRetryError]
       ELSE [called EXCEPT !.pc = "sleeping", !.delays = Append(r.delays, delay)]

\* the catch block after the last attempt: nothing but lastError is set,
\* attempt++ ends the loop and lastError is thrown
CatchLast(r, error) ==
    LoopTest([r EXCEPT !.attempts[r.attempt] = [kind |-> "threw", error |-> error],
                       !.lastError = ToError(error)],
             r.attempt + 1)

\* the method threw
RetryCatch ==
    /\ retry.pc = "awaitMethod"
    /\ \E error \in Throwables :
          retry' = IF retry.attempt < retry.options.maxAttempts
                   THEN CatchAndWait(retry, error)
                   ELSE CatchLast(retry, error)
    /\ UNCHANGED <<splitVars, marketVars, decimalVars, thrown, now, keys,
                   keyTimestamps, repoOrders, savedFor, request, response, calls,
                   requestCount, tickCount, repoLog, history, handlers>>

\* the timer of the delay fires: attempt++ and the loop goes on
RetryWake ==
    /\ retry.pc = "sleeping"
    /\ retry' = LoopTest(retry, retry.attempt + 1)
    /\ UNCHANGED <<splitVars, marketVars, decimalVars, thrown, now, keys,
                   keyTimestamps, repoOrders, savedFor, request, response, calls,
                   requestCount, tickCount, repoLog, history, handlers>>

RetryNext ==
    \/ RetryCall
    \/ RetryReturn
    \/ RetryCatch
    \/ RetryWake

----------------------------------------------------------------------------
(* Calls of IdempotencyStore.check *)

\* calls of check and steps of the clock in one run
MaxChecks == 4
MaxStoreTicks == 3

\* the clock moves by a millisecond, or by a millisecond less than, or
\* exactly, 24 hours
StoreClockSteps == {1, TTL_MS - 1, TTL_MS}

\* idempotency.check(key) at Date.now() = now; the key of the call and the
\* error it throws are recorded
StoreCheck ==
    /\ requestCount < MaxChecks
    /\ \E key \in RequestKeys :
       \E r \in {IdempotencyCheck(key, keys, keyTimestamps, now)} :
          /\ request' = [key |-> key]
          /\ keys' = r.keys
          /\ keyTimestamps' = r.keyTimestamps
          /\ thrown' = r.error
    /\ requestCount' = requestCount + 1
    /\ UNCHANGED <<splitVars, marketVars, decimalVars, now, repoOrders, savedFor,
                   response, calls, tickCount, repoLog, history, handlers, retry>>

\* time passes between two calls
StoreTick ==
    /\ tickCount < MaxStoreTicks
    /\ \E d \in StoreClockSteps : now' = now + d
    /\ tickCount' = tickCount + 1
    /\ UNCHANGED <<splitVars, marketVars, decimalVars, thrown, keys, keyTimestamps,
                   repoOrders, savedFor, request, response, calls, requestCount,
                   repoLog, history, handlers, retry>>

StoreNext ==
    \/ StoreCheck
    \/ StoreTick

----------------------------------------------------------------------------
(* Concurrent requests: the handler of POST /orders/split between its awaits *)

\* the two requests handled at the same time
Handlers == {1, 2}

\* bodies of the concurrent requests: one that passes the validation and
\* one that does not
ConcurrentDtos ==
    { [totalAmount |-> Dec(100, 0),
       modelPortfolio |-> <<Item("AAPL", Dec(6, 1), Undefined),
                            Item("TSLA", Dec(4, 1), Dec(250, 0))>>],
      [totalAmount |-> Dec(100, 0), modelPortfolio |-> <<>>] }

\* a request that arrived and whose handler has not started
Arrived(key, dto) ==
    [key |-> key, dto |-> dto, pc |-> "arrived", calls |-> <<>>,
     error |-> NoError, order |-> Undefined, response |-> NoResponse,
     otherPc |-> "none"]

\* the position of the other requests when the handler of h starts
OtherPc(h) == IF h = 1 THEN handlers[2].pc ELSE handlers[1].pc

\* the handler of request h runs from its start to its first await that
\* yields: idempotency.check(key), then service.split(dto) up to await
\* repo.save(order), whose push has happened when it yields. A check that
\* throws ends the handler; a throw inside service.split rejects the
\* promise the controller awaits.
HandlerRun ==
    \E h \in Handlers :
      /\ handlers[h].pc = "arrived"
      /\ \E fails \in StorageFailures(handlers[h].dto) :
         \E r \in {ControllerSplit(handlers[h].key, handlers[h].dto, h, now, keys,
                                   keyTimestamps, repoOrders, fails)} :
            /\ handlers' = [handlers EXCEPT ![h] =
                   [@ EXCEPT !.pc = IF r.calls = <<"idempotency.check">> THEN "threw"
                                    ELSE IF r.calls[Len(r.calls)] = "repo.save"
                                    THEN "awaitSave" ELSE "awaitService",
                             !.calls = r.calls,
                             !.error = r.error,
                             !.order = r.order,
                             !.otherPc = OtherPc(h)]]
            /\ keys' = r.keys
            /\ keyTimestamps' = r.keyTimestamps
            /\ repoOrders' = r.repo
            /\ savedFor' = IF Len(r.repo) > Len(repoOrders)
                           THEN Append(savedFor, [key |-> handlers[h].key, at |-> now])
                           ELSE savedFor
            /\ thrown' = r.error
      /\ UNCHANGED <<splitVars, marketVars, decimalVars, now, request, response,
                     calls, requestCount, tickCount, repoLog, history, retry>>

\* service.split resumes after await repo.save(order) and returns or throws
HandlerResumeService ==
    \E h \in Handlers :
      /\ handlers[h].pc = "awaitSave"
      /\ handlers' = [handlers EXCEPT ![h].pc = "awaitService"]
      /\ UNCHANGED <<splitVars, marketVars, decimalVars, thrown, now, keys,
                     keyTimestamps, repoOrders, savedFor, request, response, calls,
                     requestCount, tickCount, repoLog, history, retry>>

\* the controller resumes after await this.service.split(dto), or the
\* exception check threw reaches the client: the request is answered
HandlerRespond ==
    \E h \in Handlers :
      /\ handlers[h].pc \in {"awaitService", "threw"}
      /\ handlers' = [handlers EXCEPT ![h] =
             [@ EXCEPT !.pc = "responded",
                       !.response = IF handlers[h].error = NoError
                                    THEN [kind |-> "returned", order |-> handlers[h].order]
                                    ELSE [kind |-> "thrown", error |-> handlers[h].error]]]
      /\ UNCHANGED <<splitVars, marketVars, decimalVars, thrown, now, keys,
                     keyTimestamps, repoOrders, savedFor, request, response, calls,
                     requestCount, tickCount, repoLog, history, retry>>

ConcurrentNext ==
    \/ HandlerRun
    \/ HandlerResumeService
    \/ HandlerRespond

----------------------------------------------------------------------------

\* split: the arguments of the call are fixed at the start and nothing is
\* returned yet; no calendar operation is called
SplitInit ==
    /\ total \in Totals
    /\ portfolio \in Portfolios
    /\ precision \in 0..MaxPrecision
    /\ outcome = "idle"
    /\ orders = <<>>
    /\ instant = 0
    /\ tzOffset = 0
    /\ marketOp = "done"
    /\ marketResult = "none"
    /\ callLog = <<>>
    /\ iterations = 0
    /\ nextDate = 0
    /\ decOp = "done"
    /\ decArgs = <<>>
    /\ decResult = Undefined
    /\ thrown = NoError
    /\ now = 0
    /\ keys = {}
    /\ keyTimestamps = [k \in {} |-> 0]
    /\ repoOrders = <<>>
    /\ savedFor = <<>>
    /\ request = NoRequest
    /\ response = NoResponse
    /\ calls = <<>>
    /\ requestCount = 0
    /\ tickCount = 0
    /\ retry = NoRetry
    /\ handlers = <<>>
    /\ history = NoHistory
    /\ repoLog = <<>>

\* calendar: no operation was called yet; split is not called
MarketInit ==
    /\ total = Dec(0, 0)
    /\ portfolio = <<>>
    /\ precision = 0
    /\ outcome = "done"
    /\ orders = <<>>
    /\ instant = 0
    /\ tzOffset = 0
    /\ marketOp = "idle"
    /\ marketResult = "none"
    /\ callLog = <<>>
    /\ iterations = 0
    /\ nextDate = 0
    /\ decOp = "done"
    /\ decArgs = <<>>
    /\ decResult = Undefined
    /\ thrown = NoError
    /\ now = 0
    /\ keys = {}
    /\ keyTimestamps = [k \in {} |-> 0]
    /\ repoOrders = <<>>
    /\ savedFor = <<>>
    /\ request = NoRequest
    /\ response = NoResponse
    /\ calls = <<>>
    /\ requestCount = 0
    /\ tickCount = 0
    /\ retry = NoRetry
    /\ handlers = <<>>
    /\ history = NoHistory
    /\ repoLog = <<>>

\* DecimalUtil: no method was called yet
DecimalInit ==
    /\ total = Dec(0, 0)
    /\ portfolio = <<>>
    /\ precision = 0
    /\ outcome = "done"
    /\ orders = <<>>
    /\ instant = 0
    /\ tzOffset = 0
    /\ marketOp = "done"
    /\ marketResult = "none"
    /\ callLog = <<>>
    /\ iterations = 0
    /\ nextDate = 0
    /\ decOp = "idle"
    /\ decArgs = <<>>
    /\ decResult = Undefined
    /\ thrown = NoError
    /\ now = 0
    /\ keys = {}
    /\ keyTimestamps = [k \in {} |-> 0]
    /\ repoOrders = <<>>
    /\ savedFor = <<>>
    /\ request = NoRequest
    /\ response = NoResponse
    /\ calls = <<>>
    /\ requestCount = 0
    /\ tickCount = 0
    /\ retry = NoRetry
    /\ handlers = <<>>
    /\ history = NoHistory
    /\ repoLog = <<>>

\* service: the process has just started, the store and the repository are
\* empty; one direct call of OrderSplitter.split is pending
ServiceInit ==
    /\ \E c \in DirectCalls : total = c[1] /\ portfolio = c[2]
    /\ precision = SHARE_DECIMAL_PRECISION
    /\ outcome = "idle"
    /\ orders = <<>>
    /\ instant = 0
    /\ tzOffset = 0
    /\ marketOp = "done"
    /\ marketResult = "none"
    /\ callLog = <<>>
    /\ iterations = 0
    /\ nextDate = 0
    /\ decOp = "done"
    /\ decArgs = <<>>
    /\ decResult = Undefined
    /\ thrown = NoError
    /\ now = 0
    /\ keys = {}
    /\ keyTimestamps = [k \in {} |-> 0]
    /\ repoOrders = <<>>
    /\ savedFor = <<>>
    /\ request = NoRequest
    /\ response = NoResponse
    /\ calls = <<>>
    /\ requestCount = 0
    /\ tickCount = 0
    /\ retry = NoRetry
    /\ handlers = <<>>
    /\ history = NoHistory
    /\ repoLog = <<>>

\* the core: one call of one of its components is pending
CoreInit ==
    /\ \E c \in { <<d[1], d[2], "idle", "done", "done">> : d \in DirectCalls }
                 \cup { <<Dec(0, 0), <<>>, "done", "idle", "done">>,
                        <<Dec(0, 0), <<>>, "done", "done", "idle">> } :
          /\ total = c[1]
          /\ portfolio = c[2]
          /\ outcome = c[3]
          /\ marketOp = c[4]
          /\ decOp = c[5]
    /\ precision = SHARE_DECIMAL_PRECISION
    /\ orders = <<>>
    /\ instant = 0
    /\ tzOffset = 0
    /\ marketResult = "none"
    /\ callLog = <<>>
    /\ iterations = 0
    /\ nextDate = 0
    /\ decArgs = <<>>
    /\ decResult = Undefined
    /\ thrown = NoError
    /\ now = 0
    /\ keys = {}
    /\ keyTimestamps = [k \in {} |-> 0]
    /\ repoOrders = <<>>
    /\ savedFor = <<>>
    /\ request = NoRequest
    /\ response = NoResponse
    /\ calls = <<>>
    /\ requestCount = 0
    /\ tickCount = 0
    /\ retry = NoRetry
    /\ handlers = <<>>
    /\ history = NoHistory
    /\ repoLog = <<>>

\* calendar, repeated calls: a Date object and the timezone of the process
\* are given, no operation was called on the object yet
CalendarInit ==
    /\ total = Dec(0, 0)
    /\ portfolio = <<>>
    /\ precision = 0
    /\ outcome = "done"
    /\ orders = <<>>
    /\ instant \in CalendarInstants
    /\ tzOffset \in TzOffsets
    /\ marketOp = "none"
    /\ marketResult = "none"
    /\ callLog = <<>>
    /\ iterations = 0
    /\ nextDate = 0
    /\ decOp = "done"
    /\ decArgs = <<>>
    /\ decResult = Undefined
    /\ thrown = NoError
    /\ now = 0
    /\ keys = {}
    /\ keyTimestamps = [k \in {} |-> 0]
    /\ repoOrders = <<>>
    /\ savedFor = <<>>
    /\ request = NoRequest
    /\ response = NoResponse
    /\ calls = <<>>
    /\ requestCount = 0
    /\ tickCount = 0
    /\ retry = NoRetry
    /\ handlers = <<>>
    /\ history = NoHistory
    /\ repoLog = <<>>

\* repository: private orders = [], no call made
RepoInit ==
    /\ total = Dec(0, 0)
    /\ portfolio = <<>>
    /\ precision = 0
    /\ outcome = "done"
    /\ orders = <<>>
    /\ instant = 0
    /\ tzOffset = 0
    /\ marketOp = "done"
    /\ marketResult = "none"
    /\ callLog = <<>>
    /\ iterations = 0
    /\ nextDate = 0
    /\ decOp = "done"
    /\ decArgs = <<>>
    /\ decResult = Undefined
    /\ thrown = NoError
    /\ now = 0
    /\ keys = {}
    /\ keyTimestamps = [k \in {} |-> 0]
    /\ repoOrders = <<>>
    /\ savedFor = <<>>
    /\ request = NoRequest
    /\ response = NoResponse
    /\ calls = <<>>
    /\ requestCount = 0
    /\ tickCount = 0
    /\ retry = NoRetry
    /\ handlers = <<>>
    /\ history = NoHistory
    /\ repoLog = <<>>

\* history: the repository holds orders saved earlier, no call made
HistoryInit ==
    /\ total = Dec(0, 0)
    /\ portfolio = <<>>
    /\ precision = 0
    /\ outcome = "done"
    /\ orders = <<>>
    /\ instant = 0
    /\ tzOffset = 0
    /\ marketOp = "done"
    /\ marketResult = "none"
    /\ callLog = <<>>
    /\ iterations = 0
    /\ nextDate = 0
    /\ decOp = "done"
    /\ decArgs = <<>>
    /\ decResult = Undefined
    /\ thrown = NoError
    /\ now = 0
    /\ keys = {}
    /\ keyTimestamps = [k \in {} |-> 0]
    /\ repoOrders \in StoredOrders
    /\ savedFor = <<>>
    /\ request = NoRequest
    /\ response = NoResponse
    /\ calls = <<>>
    /\ requestCount = 0
    /\ tickCount = 0
    /\ retry = NoRetry
    /\ handlers = <<>>
    /\ history = NoHistory
    /\ repoLog = <<>>

\* calendar, the loop followed turn by turn: no call made
LoopInit ==
    /\ total = Dec(0, 0)
    /\ portfolio = <<>>
    /\ precision = 0
    /\ outcome = "done"
    /\ orders = <<>>
    /\ instant = 0
    /\ tzOffset = 0
    /\ marketOp = "idle"
    /\ marketResult = "none"
    /\ callLog = <<>>
    /\ iterations = 0
    /\ nextDate = 0
    /\ decOp = "done"
    /\ decArgs = <<>>
    /\ decResult = Undefined
    /\ thrown = NoError
    /\ now = 0
    /\ keys = {}
    /\ keyTimestamps = [k \in {} |-> 0]
    /\ repoOrders = <<>>
    /\ savedFor = <<>>
    /\ request = NoRequest
    /\ response = NoResponse
    /\ calls = <<>>
    /\ requestCount = 0
    /\ tickCount = 0
    /\ retry = NoRetry
    /\ handlers = <<>>
    /\ history = NoHistory
    /\ repoLog = <<>>

\* split as OrdersService.split calls it for a request that passed the
\* validation; nothing is returned yet
AcceptedInit ==
    /\ \E dto \in AcceptedRequests :
         total = dto.totalAmount /\ portfolio = Priced(dto.modelPortfolio)
    /\ precision = SHARE_DECIMAL_PRECISION
    /\ outcome = "idle"
    /\ orders = <<>>
    /\ instant = 0
    /\ tzOffset = 0
    /\ marketOp = "done"
    /\ marketResult = "none"
    /\ callLog = <<>>
    /\ iterations = 0
    /\ nextDate = 0
    /\ decOp = "done"
    /\ decArgs = <<>>
    /\ decResult = Undefined
    /\ thrown = NoError
    /\ now = 0
    /\ keys = {}
    /\ keyTimestamps = [k \in {} |-> 0]
    /\ repoOrders = <<>>
    /\ savedFor = <<>>
    /\ request = NoRequest
    /\ response = NoResponse
    /\ calls = <<>>
    /\ requestCount = 0
    /\ tickCount = 0
    /\ retry = NoRetry
    /\ handlers = <<>>
    /\ history = NoHistory
    /\ repoLog = <<>>

\* concurrency: the requests have arrived, no handler has started
ConcurrentInit ==
    /\ total = Dec(0, 0)
    /\ portfolio = <<>>
    /\ precision = 0
    /\ outcome = "done"
    /\ orders = <<>>
    /\ instant = 0
    /\ tzOffset = 0
    /\ marketOp = "done"
    /\ marketResult = "none"
    /\ callLog = <<>>
    /\ iterations = 0
    /\ nextDate = 0
    /\ decOp = "done"
    /\ decArgs = <<>>
    /\ decResult = Undefined
    /\ thrown = NoError
    /\ now = 0
    /\ keys = {}
    /\ keyTimestamps = [k \in {} |-> 0]
    /\ repoOrders = <<>>
    /\ savedFor = <<>>
    /\ request = NoRequest
    /\ response = NoResponse
    /\ calls = <<>>
    /\ requestCount = 0
    /\ tickCount = 0
    /\ retry = NoRetry
    /\ handlers \in [Handlers -> {Arrived(k, d) : k \in RequestKeys, d \in ConcurrentDtos}]
    /\ history = NoHistory
    /\ repoLog = <<>>

\* idempotency store: a new store, no key registered, the clock at 0
StoreInit ==
    /\ total = Dec(0, 0)
    /\ portfolio = <<>>
    /\ precision = 0
    /\ outcome = "done"
    /\ orders = <<>>
    /\ instant = 0
    /\ tzOffset = 0
    /\ marketOp = "done"
    /\ marketResult = "none"
    /\ callLog = <<>>
    /\ iterations = 0
    /\ nextDate = 0
    /\ decOp = "done"
    /\ decArgs = <<>>
    /\ decResult = Undefined
    /\ thrown = NoError
    /\ now = 0
    /\ keys = {}
    /\ keyTimestamps = [k \in {} |-> 0]
    /\ repoOrders = <<>>
    /\ savedFor = <<>>
    /\ request = NoRequest
    /\ response = NoResponse
    /\ calls = <<>>
    /\ requestCount = 0
    /\ tickCount = 0
    /\ retry = NoRetry
    /\ handlers = <<>>
    /\ history = NoHistory
    /\ repoLog = <<>>

\* Retry: a method decorated with some options; the wrapper is not called yet
RetryInit ==
    /\ total = Dec(0, 0)
    /\ portfolio = <<>>
    /\ precision = 0
    /\ outcome = "done"
    /\ orders = <<>>
    /\ instant = 0
    /\ tzOffset = 0
    /\ marketOp = "done"
    /\ marketResult = "none"
    /\ callLog = <<>>
    /\ iterations = 0
    /\ nextDate = 0
    /\ decOp = "done"
    /\ decArgs = <<>>
    /\ decResult = Undefined
    /\ thrown = NoError
    /\ now = 0
    /\ keys = {}
    /\ keyTimestamps = [k \in {} |-> 0]
    /\ repoOrders = <<>>
    /\ savedFor = <<>>
    /\ request = NoRequest
    /\ response = NoResponse
    /\ calls = <<>>
    /\ requestCount = 0
    /\ tickCount = 0
    /\ retry \in {Decorated(o) : o \in RetryOptions}
    /\ handlers = <<>>
    /\ history = NoHistory
    /\ repoLog = <<>>

SplitNext == Split

CoreNext ==
    \/ DecimalNext
    \/ Split
    \/ MarketNext

SpecDecimal == DecimalInit /\ [][DecimalNext]_vars

SpecService == ServiceInit /\ [][ServiceNext]_vars

SpecCore == CoreInit /\ [][CoreNext]_vars

SpecCalendar == CalendarInit /\ [][CalendarNext]_vars

SpecRepo == RepoInit /\ [][RepoNext]_vars

SpecHistory == HistoryInit /\ [][HistoryNext]_vars

\* nextExecutionDate is synchronous code: once called it keeps running, so
\* a turn of the loop or its exit is taken whenever one is possible
SpecLoop == LoopInit /\ [][LoopNext]_vars /\ WF_vars(SkipDay) /\ WF_vars(ReturnNextDate)

SpecAccepted == AcceptedInit /\ [][SplitNext]_vars

SpecConcurrent == ConcurrentInit /\ [][ConcurrentNext]_vars

SpecStore == StoreInit /\ [][StoreNext]_vars

\* an awaited method settles and a started timer fires
SpecRetry ==
    /\ RetryInit
    /\ [][RetryNext]_vars
    /\ WF_vars(RetryCall)
    /\ WF_vars(RetryReturn \/ RetryCatch)
    /\ WF_vars(RetryWake)

SpecSplit == SplitInit /\ [][SplitNext]_vars

SpecMarket == MarketInit /\ [][MarketNext]_vars

----------------------------------------------------------------------------
(* Claims about OrderSplitter.split *)

Returned == outcome = "ok"

N == Len(portfolio)

AllPricesPositive == \A i \in 1..N : PriceFn(portfolio[i]).m > 0

\* c is x = n / d rounded to an integer with ties to the even integer (d > 0)
IsHalfEvenOf(c, n, d) ==
    /\ 2 * Abs(n - c * d) <= d
    /\ 2 * Abs(n - c * d) = d => c % 2 = 0

\* q is x = n / d rounded to an integer with ties away from zero (d # 0)
IsHalfUpOf(q, n, d) ==
    /\ 2 * Abs(n * Sign(d) - q * Abs(d)) <= Abs(d)
    /\ 2 * Abs(n * Sign(d) - q * Abs(d)) = Abs(d) => Abs(q) * Abs(d) > Abs(n)

\* the amount of order i is total * weight rounded half-even to cents
IsRoundedShare(i) ==
    LET w == portfolio[i].weight
        a == orders[i].amount
    IN /\ a.e <= 2
       /\ IsHalfEvenOf(Coef(a, 2), total.m * w.m * 100, Pow10(total.e + w.e))

\* the exact product total * weight has more than two decimals
WasRounded(i) == Multiply(total, portfolio[i].weight).e > 2

IsHalfUpQuantity(i) ==
    LET a == orders[i].amount
        p == orders[i].price
        q == orders[i].quantity
    IN /\ q.e <= precision
       /\ IsHalfUpOf(Coef(q, precision),
                     a.m * Pow10(precision + p.e), p.m * Pow10(a.e))

QuantityIsTie(i) ==
    LET a == orders[i].amount
        p == orders[i].price
    IN 2 * Abs((a.m * Pow10(precision + p.e)) % Abs(p.m * Pow10(a.e)))
           = Abs(p.m * Pow10(a.e))

C4_FailsOnNonPositivePrice ==
    (outcome # "idle" /\ \E i \in 1..N : PriceFn(portfolio[i]).m <= 0)
        => (outcome # "ok" /\ orders = <<>>)

\* C4 (amended): split fails, returning nothing, whenever some resolved price
\* is zero.
C4_FailsOnZeroPrice ==
    (outcome # "idle" /\ \E i \in 1..N : PriceFn(portfolio[i]).m = 0)
        => (outcome = "Division by zero" /\ orders = <<>>)

\* the zero price is met after items that were already allocated
C4_Witness ==
    /\ outcome = "Division by zero" /\ N = 3
    /\ PriceFn(portfolio[1]).m > 0
    /\ PriceFn(portfolio[2]).m < 0
    /\ PriceFn(portfolio[3]).m = 0
    /\ orders = <<>>

\* C5 (as stated): every returned item of weight 0 has amount 0 and
\* quantity 0, at every position.
C5_ZeroWeightZeroAmount ==
    Returned =>
        \A i \in 1..Len(orders) :
            portfolio[i].weight.m = 0 =>
                (orders[i].amount.m = 0 /\ orders[i].quantity.m = 0)

\* C5 (amended): every returned item of weight 0 that is not in last
\* position has amount 0 and quantity 0.
C5_ZeroWeightNotLast ==
    Returned =>
        \A i \in 1..(Len(orders) - 1) :
            portfolio[i].weight.m = 0 =>
                (orders[i].amount.m = 0 /\ orders[i].quantity.m = 0)

C5_Witness ==
    /\ Returned /\ N = 3
    /\ portfolio[2].weight.m = 0
    /\ orders[2].amount.m = 0 /\ orders[2].quantity.m = 0
    /\ portfolio[3].weight.m = 0
    /\ orders[3].amount.m # 0

\* the permutations of 1..n, for every portfolio length n
Perms ==
    [n \in 0..MaxItems |->
        { f \in [1..n -> 1..n] : \A i, j \in 1..n : f[i] = f[j] => i = j }]

Permuted(pf, f) == [i \in 1..Len(pf) |-> pf[f[i]]]

----------------------------------------------------------------------------
(* Claims about MarketPolicy *)

\* the Eastern-Time projection of the instant of the last call
ET == GetETDate(instant)

ETIsWeekday == GetDay(ET.day) \in 1..5

ETIsHoliday == CivilFromDays(ET.day) \in MARKET_HOLIDAYS

\* time of day in [09:30:00, 16:00:00)
ETInTradingWindow == ET.tod >= HMS(9, 30, 0) /\ ET.tod < HMS(16, 0, 0)

MarketOpenAtInstant == ETIsWeekday /\ ~ETIsHoliday /\ ETInTradingWindow

\* the calendar day of the instant in the caller's timezone
CallerDay == LocalDay(instant, tzOffset)

IsBusinessDay(day) ==
    GetDay(day) \in 1..5 /\ CivilFromDays(day) \notin MARKET_HOLIDAYS

\* C7: when the market is open at the instant, nextExecutionDate returns the
\* instant's date in the caller's timezone, not its Eastern-Time date.
C7_OpenReturnsCallerDate ==
    (marketOp = "nextExecutionDate" /\ MarketOpenAtInstant)
        => marketResult = CivilFromDays(CallerDay)

C7_Witness ==
    /\ marketOp = "nextExecutionDate"
    /\ MarketOpenAtInstant
    /\ CallerDay # ET.day
    /\ marketResult = CivilFromDays(CallerDay)
    /\ marketResult # CivilFromDays(ET.day)

\* C8: when the market is not open at the instant, nextExecutionDate returns
\* the earliest caller-local date strictly after the instant's caller-local
\* date that is Monday-Friday and not a listed holiday.
C8_ClosedReturnsNextLocalBusinessDay ==
    (marketOp = "nextExecutionDate" /\ ~MarketOpenAtInstant)
        => \E d \in (CallerDay + 1)..(CallerDay + 10) :
              /\ marketResult = CivilFromDays(d)
              /\ IsBusinessDay(d)
              /\ \A c \in (CallerDay + 1)..(d - 1) : ~IsBusinessDay(c)

\* before 09:30 Eastern on a trading day, seen from a timezone where it is
\* already the next day: the day after the local date is skipped although
\* the day after the Eastern date is a business day
C8_Witness ==
    /\ marketOp = "nextExecutionDate"
    /\ ETIsWeekday /\ ~ETIsHoliday /\ ET.tod < HMS(9, 30, 0)
    /\ CallerDay # ET.day
    /\ IsBusinessDay(ET.day + 1)
    /\ ~IsBusinessDay(CallerDay + 1)
    /\ marketResult # CivilFromDays(CallerDay + 1)
    /\ marketResult # CivilFromDays(ET.day + 1)

\* C9 (as stated): the public open check returns true iff the Eastern-Time
\* projection is a weekday, not a holiday, and in [09:30:00, 16:00:00).
C9_OpenCheckIsFullMarketOpen ==
    marketOp = "isMarketTimeOpen" => (marketResult = TRUE <=> MarketOpenAtInstant)

\* C9 (amended): isMarketTimeOpen returns true iff the Eastern-Time time of
\* day is in [09:30:00, 16:00:00), whatever the day.
C9_OpenCheckIsTimeWindow ==
    marketOp = "isMarketTimeOpen" => (marketResult = TRUE <=> ETInTradingWindow)

C9_Witness ==
    /\ marketOp = "isMarketTimeOpen"
    /\ ~ETIsWeekday
    /\ ET.tod = HMS(15, 59, 59)
    /\ marketResult = TRUE

\* C10: validateMarketTimeSlot fails with MARKET_CLOSED_EARLY iff the
\* Eastern time of day is before 09:30:00, with MARKET_CLOSED_LATE iff it is
\* after 16:00:00, and returns otherwise, whatever the day; at 16:00:00 it
\* returns while isMarketTimeOpen is false, at 09:30:00 it returns and
\* isMarketTimeOpen is true.
C10_TimeSlotBounds ==
    /\ marketOp = "validateMarketTimeSlot" =>
          /\ marketResult = "MARKET_CLOSED_EARLY" <=> ET.tod < HMS(9, 30, 0)
          /\ marketResult = "MARKET_CLOSED_LATE" <=> ET.tod > HMS(16, 0, 0)
          /\ marketResult = "ok" <=> (ET.tod >= HMS(9, 30, 0) /\ ET.tod <= HMS(16, 0, 0))
    /\ (marketOp = "isMarketTimeOpen" /\ ET.tod = HMS(16, 0, 0)) => marketResult = FALSE
    /\ (marketOp = "isMarketTimeOpen" /\ ET.tod = HMS(9, 30, 0)) => marketResult = TRUE

\* exactly 16:00:00 Eastern on a day the market is closed all day
C10_Witness ==
    /\ marketOp = "validateMarketTimeSlot"
    /\ ET.tod = HMS(16, 0, 0)
    /\ ~ETIsWeekday
    /\ marketResult = "ok"

\* C11: validateMarketOpen is decided by the Eastern-Time calendar date of
\* the instant alone: MARKET_CLOSED_WEEKEND when that date is a Saturday or
\* Sunday (also when it is a listed holiday as well), MARKET_CLOSED_HOLIDAY
\* when it is a Monday-Friday listed holiday, and a normal return otherwise,
\* at every time of day.
C11_MarketOpenByETDate ==
    marketOp = "validateMarketOpen" =>
        marketResult = (IF GetDay(ET.day) \in {0, 6} THEN "MARKET_CLOSED_WEEKEND"
                        ELSE IF ETIsHoliday THEN "MARKET_CLOSED_HOLIDAY"
                        ELSE "ok")

\* Saturday 2026-07-04, a listed holiday, at a time inside trading hours
C11_Witness ==
    /\ marketOp = "validateMarketOpen"
    /\ CivilFromDays(ET.day) = <<2026, 7, 4>>
    /\ GetDay(ET.day) = 6
    /\ ETIsHoliday
    /\ ETInTradingWindow
    /\ marketResult = "MARKET_CLOSED_WEEKEND"

\* C12: at exactly 16:00:00 Eastern on a trading day (Monday-Friday, not a
\* listed holiday) nextExecutionDate returns that same day, the date of the
\* instant for the caller (which is also its Eastern date when the two agree).
C12_CloseInstantExecutesSameDay ==
    (marketOp = "nextExecutionDate" /\ ETIsWeekday /\ ~ETIsHoliday
        /\ ET.tod = HMS(16, 0, 0))
        => marketResult \in {CivilFromDays(CallerDay), CivilFromDays(ET.day)}

\* Eastern daylight time 2024-2026, from the tz database: the instants at
\* which it starts and ends
DaylightPeriods == {
    <<DaysFromCivil(2024, 3, 10) * SecondsPerDay + HMS(7, 0, 0),
      DaysFromCivil(2024, 11, 3) * SecondsPerDay + HMS(6, 0, 0)>>,
    <<DaysFromCivil(2025, 3, 9) * SecondsPerDay + HMS(7, 0, 0),
      DaysFromCivil(2025, 11, 2) * SecondsPerDay + HMS(6, 0, 0)>>,
    <<DaysFromCivil(2026, 3, 8) * SecondsPerDay + HMS(7, 0, 0),
      DaysFromCivil(2026, 11, 1) * SecondsPerDay + HMS(6, 0, 0)>> }

InDaylightTime(j) == \E p \in DaylightPeriods : p[1] <= j /\ j < p[2]

\* Eastern wall clock of an instant as <<day, seconds since midnight>>,
\* from the table above
WallClock(j) ==
    LET w == j - (IF InDaylightTime(j) THEN HMS(4, 0, 0) ELSE HMS(5, 0, 0))
    IN <<w \div SecondsPerDay, w % SecondsPerDay>>

\* what the operation of the last call gives for another instant
ResultAt(j) ==
    CASE marketOp = "isMarketTimeOpen" -> IsMarketTimeOpen(j)
      [] marketOp = "validateMarketTimeSlot" -> ValidateMarketTimeSlot(j)
      [] marketOp = "validateMarketOpen" -> ValidateMarketOpen(j)

\* the instants with the wall-clock time of day of the last call on a winter
\* day (Tuesday 2025-01-14) and on a summer day (Tuesday 2025-07-15)
SeasonTwins ==
    LET tod == WallClock(instant)[2]
    IN { DaysFromCivil(2025, 1, 14) * SecondsPerDay + tod + HMS(5, 0, 0),
         DaysFromCivil(2025, 7, 15) * SecondsPerDay + tod + HMS(4, 0, 0) }

\* C13: the open check, validateMarketTimeSlot and validateMarketOpen give
\* the same result for two instants with the same Eastern date and time of
\* day (an instant and the one an hour away, under the other offset), the
\* time checks give the same result for the same Eastern time of day under
\* the winter and the summer offset, the caller's timezone plays no part,
\* and 09:30:00 Eastern is open under both offsets.
C13_SameWallClockSameResult ==
    /\ marketOp \in {"isMarketTimeOpen", "validateMarketTimeSlot", "validateMarketOpen"} =>
          \A j \in {instant - HMS(1, 0, 0), instant + HMS(1, 0, 0)} :
              WallClock(j) = WallClock(instant) => ResultAt(j) = marketResult
    /\ marketOp \in {"isMarketTimeOpen", "validateMarketTimeSlot"} =>
          \A j \in SeasonTwins : ResultAt(j) = marketResult
    /\ (marketOp = "isMarketTimeOpen" /\ WallClock(instant)[2] = HMS(9, 30, 0))
          => marketResult = TRUE
    /\ (marketOp = "validateMarketTimeSlot" /\ WallClock(instant)[2] = HMS(9, 30, 0))
          => marketResult = "ok"

\* 09:30:00 Eastern in summer, found open, seen from UTC+10
C13_Witness ==
    /\ marketOp = "isMarketTimeOpen"
    /\ InDaylightTime(instant)
    /\ WallClock(instant)[2] = HMS(9, 30, 0)
    /\ tzOffset = HMS(10, 0, 0)
    /\ marketResult = TRUE
    /\ \E j \in SeasonTwins : ~InDaylightTime(j) /\ ResultAt(j) = TRUE

----------------------------------------------------------------------------
(* Claims about the service *)

\* a request was handled
Handled == requestCount > 0

Threw == Handled /\ response.kind = "thrown"

ReturnedOrder == Handled /\ response.kind = "returned"

\* the last collaborator the handler called
LastCall == calls[Len(calls)]

\* the call of OrderSplitter.split failed
SplitFailed == outcome \notin {"idle", "ok", "done"}

\* C14: split is all-or-nothing.  When a call of OrderSplitter.split fails
\* (invalid number, zero price, post-condition) no allocation list is
\* returned.  When a request fails at any step (validation, allocation,
\* repo.save rejecting) the repository holds no order of that request and
\* nothing is returned, and the caller gets the very error of the failing
\* step: the plain Error of OrderSplitter.split, or the exception repo.save
\* rejected with.  When it succeeds the returned order is the one saved.
C14_AllOrNothing ==
    /\ SplitFailed => orders = <<>>
    /\ Threw =>
          /\ \A i \in 1..Len(repoOrders) : repoOrders[i].id # requestCount
          /\ Len(savedFor) = Len(repoOrders)
          /\ LastCall = "OrderSplitter.split" =>
                (SplitFailed /\ response.error = Error(outcome))
          /\ LastCall = "repo.save" =>
                response.error = PersistenceException("SAVE_ORDER_FAILED")
          /\ LastCall = "validatePortfolio" =>
                response.error.name = "OrderValidationException"
    /\ ReturnedOrder =>
          /\ LastCall = "repo.save"
          /\ outcome = "ok"
          /\ response.order.orders = orders
          /\ repoOrders[Len(repoOrders)] = response.order
          /\ Cardinality({ i \in 1..Len(repoOrders) : repoOrders[i].id = requestCount }) = 1

\* the second request fails in repo.save after a first one was saved: the
\* repository still holds the first order only
C14_Witness ==
    /\ requestCount = 2
    /\ Threw
    /\ LastCall = "repo.save"
    /\ outcome = "ok"
    /\ orders # <<>>
    /\ Len(repoOrders) = 1
    /\ repoOrders[1].id = 1

\* the error of a request whose key is already registered
IsDuplicateRejection(r) ==
    /\ r.kind = "thrown"
    /\ r.error.name = "ConflictException"
    /\ r.error.status = 409
    /\ r.error.code = "DUPLICATE_REQUEST"

\* a request arrives with a key that was registered at most TTL_MS ago
DuplicateRequestStep ==
    /\ requestCount' = requestCount + 1
    /\ request'.key # ""
    /\ request'.key \in keys
    /\ now - keyTimestamps[request'.key] <= TTL_MS

\* the orders saved for requests with the same key are more than TTL_MS apart
OneOrderPerKeyWindow ==
    \A i, j \in 1..Len(savedFor) :
        (i < j /\ savedFor[i].key # "" /\ savedFor[i].key = savedFor[j].key)
            => savedFor[j].at - savedFor[i].at > TTL_MS

\* C15: a request whose Idempotency-Key was registered within the last 24
\* hours is rejected with 409 DUPLICATE_REQUEST by idempotency.check, before
\* OrdersService.split is called and without touching the repository; and
\* no two orders are ever saved for the same key within 24 hours.
C15_DuplicateKeyRejected ==
    /\ [][DuplicateRequestStep =>
            /\ IsDuplicateRejection(response')
            /\ calls' = <<"idempotency.check">>
            /\ repoOrders' = repoOrders]_vars
    /\ [](OneOrderPerKeyWindow /\ Len(savedFor) = Len(repoOrders))

\* a second request with the key of a saved order, exactly 24 hours later
C15_Witness ==
    /\ requestCount = 2
    /\ request.key = "k1"
    /\ IsDuplicateRejection(response)
    /\ calls = <<"idempotency.check">>
    /\ now - keyTimestamps["k1"] = TTL_MS
    /\ Len(repoOrders) = 1
    /\ savedFor[1].key = "k1"

\* the request of the last handler got past idempotency.check
ReachedService == Handled /\ Len(calls) >= 2 /\ calls[2] = "service.split"

\* what OrdersService.split itself called
ServiceCalls == SubSeq(calls, 3, Len(calls))

ServiceSteps == <<"validatePortfolio", "nextExecutionDate", "OrderSplitter.split", "repo.save">>

\* the weights are numbers and their sum is more than 0.0001 away from 1
WeightSumOff(pf) ==
    /\ \A i \in 1..Len(pf) : pf[i].weight.e >= 0
    /\ LET sum == Sum([i \in 1..Len(pf) |-> pf[i].weight])
           e == Max2(sum.e, 4)
       IN Abs(Coef(sum, e) - Pow10(e)) > Pow10(e - 4)

\* the request is one the service must refuse
InvalidRequest(dto) ==
    LET pf == dto.modelPortfolio
    IN \/ pf = <<>>
       \/ \E i \in 1..Len(pf) : pf[i].symbol = ""
       \/ \E i \in 1..Len(pf) : pf[i].weight.e >= 0 /\ pf[i].weight.m < 0
       \/ \E i \in 1..Len(pf) :
             pf[i].price # Undefined /\ pf[i].price.e >= 0 /\ pf[i].price.m <= 0
       \/ WeightSumOff(pf)
       \/ \E i, j \in 1..Len(pf) : i # j /\ pf[i].symbol = pf[j].symbol
       \/ (dto.totalAmount.e >= 0 /\ dto.totalAmount.m <= 0)

----------------------------------------------------------------------------
(* Claims about DecimalUtil *)

\* the call of round returned r for value v at precision p: r has at most p
\* decimals and r * 10^p is v * 10^p rounded to an integer, ties to even
IsHalfEvenRounding(r, v, p) ==
    IF v.e <= p THEN r = v
    ELSE /\ r.e <= p
         /\ IsHalfEvenOf(Coef(r, p), v.m, Pow10(v.e - p))

\* C17: round(value, precision) returns, for every precision in 0..28, the
\* value rounded to that many decimals with ties to the even digit
\* (round(0.5, 0) = 0, round(1.5, 0) = 2, round(0.6666, 2) = 0.67), and
\* throws without returning for every precision below 0 or above 28.
C17_RoundHalfEvenInRange ==
    decOp = "round" =>
        LET value == decArgs[1]
            p == decArgs[2]
        IN /\ (p < 0 \/ p > 28) =>
                 (thrown # NoError /\ decResult = Undefined)
           /\ (p >= 0 /\ p <= 28 /\ value.e >= 0) =>
                 /\ thrown = NoError
                 /\ IsHalfEvenRounding(decResult, value, p)
           /\ decArgs = <<Dec(5, 1), 0>> => decResult = Dec(0, 0)
           /\ decArgs = <<Dec(15, 1), 0>> => decResult = Dec(2, 0)
           /\ decArgs = <<Dec(6666, 4), 2>> => decResult = Dec(67, 2)

\* a tie at the largest precision that rounds: 2.675 to two decimals
C17_Witness ==
    /\ decOp = "round"
    /\ decArgs = <<Dec(2675, 3), 2>>
    /\ thrown = NoError
    /\ decResult = Dec(268, 2)

\* the largest accepted precision returns the value itself
C17_WitnessUpperLimit ==
    /\ decOp = "round"
    /\ decArgs = <<Dec(6666, 4), 28>>
    /\ thrown = NoError
    /\ decResult = Dec(6666, 4)

----------------------------------------------------------------------------
(* Claims about the post-condition of OrderSplitter.split *)

\* the call was made with a total > 0, weights >= 0 and prices > 0
PositiveInputs ==
    /\ outcome \notin {"idle", "done"}
    /\ total.m > 0
    /\ \A i \in 1..N : portfolio[i].weight.m >= 0 /\ PriceFn(portfolio[i]).m > 0

----------------------------------------------------------------------------
(* Claims about repeated calls of the calendar operations *)

\* what an operation gives for an instant and a timezone
ResultOf(op, inst, tz) ==
    CASE op = "nextExecutionDate" -> NextExecutionDate(inst, tz)
      [] op = "validateMarketTimeSlot" -> ValidateMarketTimeSlot(inst)
      [] op = "isMarketTimeOpen" -> IsMarketTimeOpen(inst)
      [] op = "validateMarketOpen" -> ValidateMarketOpen(inst)

----------------------------------------------------------------------------
(* Claims about the error values of the core *)

MarketCodes ==
    {"MARKET_CLOSED_EARLY", "MARKET_CLOSED_LATE",
     "MARKET_CLOSED_WEEKEND", "MARKET_CLOSED_HOLIDAY"}

CoreMessages ==
    {"Invalid number: NaN", "Invalid number: Infinity",
     "Precision must be between 0 and 28", "Division by zero",
     "Order split calculation error"}

\* C20 as stated: every failure raised by the core (invalid number, invalid
\* precision, division by zero, allocation mismatch, market closed early,
\* late, weekend, holiday) carries a machine-readable code on the error
\* value.
C20_EveryFailureCarriesCode ==
    thrown # NoError => "code" \in DOMAIN thrown

\* C20 amended: a market failure is a MarketException carrying the code of its
\* kind (early, late, weekend, holiday), the code the call reported; a
\* failure of the decimal operations or of the allocation is a plain Error
\* with a message and no code, and its kind is told by the message alone
\* (invalid number, precision out of range, division by zero, calculation
\* error).
C20_OnlyMarketFailuresCarryCode ==
    thrown # NoError =>
        IF marketOp \in {"validateMarketTimeSlot", "validateMarketOpen"}
        THEN /\ thrown.name = "MarketException"
             /\ "code" \in DOMAIN thrown
             /\ thrown.code \in MarketCodes
             /\ thrown.code = marketResult
        ELSE /\ thrown.name = "Error"
             /\ "code" \notin DOMAIN thrown
             /\ thrown.message \in CoreMessages
             /\ (decOp = "round" /\ RoundThrows(decArgs[2]))
                    <=> thrown.message = "Precision must be between 0 and 28"
             /\ thrown.message = "Order split calculation error"
                    => outcome = thrown.message

\* validateMarketOpen on a holiday: the failure carries MARKET_CLOSED_HOLIDAY
C20_Witness ==
    /\ marketOp = "validateMarketOpen"
    /\ thrown.name = "MarketException"
    /\ thrown.code = "MARKET_CLOSED_HOLIDAY"

----------------------------------------------------------------------------
(* Claims about the in-memory repository *)

\* after the first n calls: an order with the id was saved, and no
\* delete(id) and no clear() was called since
SavedAndKept(id, n) ==
    \E i \in 1..n :
        /\ repoLog[i].op = "save" /\ repoLog[i].id = id /\ repoLog[i].result
        /\ \A j \in (i + 1)..n :
              /\ repoLog[j].op # "clear"
              /\ ~(repoLog[j].op = "delete" /\ repoLog[j].id = id)

\* the repository after the first n calls
RepoAfter(n) == IF n = 0 THEN <<>> ELSE repoLog[n].after

\* C21: after any sequence of save, delete and clear, findById(id) returns
\* an order (of that id) iff an order with the id was saved and not deleted
\* or cleared since; delete(id) returns true iff such an order was present
\* just before the call; after delete(id), findById(id) gives null and the
\* orders with other ids are unchanged.
C21_RepositoryContract ==
    /\ \A id \in RepoIds :
          RepoFindById(repoOrders, id) # Null <=> SavedAndKept(id, Len(repoLog))
    /\ \A n \in 1..Len(repoLog) :
          LET call == repoLog[n]
          IN /\ call.op = "findById" =>
                  /\ call.result # Null <=> SavedAndKept(call.id, n - 1)
                  /\ call.result # Null => call.result.id = call.id
                  /\ call.after = RepoAfter(n - 1)
             /\ call.op = "delete" =>
                  /\ call.result <=> SavedAndKept(call.id, n - 1)
                  /\ RepoFindById(call.after, call.id) = Null
                  /\ SelectSeq(call.after, LAMBDA o : o.id # call.id)
                        = SelectSeq(RepoAfter(n - 1), LAMBDA o : o.id # call.id)
                  /\ Len(call.after) = Len(SelectSeq(RepoAfter(n - 1), LAMBDA o : o.id # call.id))

\* two orders of one id and an order of another id are saved, the first id
\* is deleted: delete gave true and only the other order is left
C21_Witness ==
    /\ Len(repoLog) = 4
    /\ repoLog[1].op = "save" /\ repoLog[1].id = 1
    /\ repoLog[2].op = "save" /\ repoLog[2].id = 2
    /\ repoLog[3].op = "save" /\ repoLog[3].id = 1
    /\ repoLog[4].op = "delete" /\ repoLog[4].id = 1 /\ repoLog[4].result
    /\ Len(repoOrders) = 1
    /\ RepoFindById(repoOrders, 1) = Null
    /\ RepoFindById(repoOrders, 2) # Null

----------------------------------------------------------------------------
(* Claims about the order history *)

\* an order matches the filters of the last call of history
Matches(o) ==
    /\ history.orderType # "" => o.orderType = history.orderType
    /\ history.portfolioName # "" => o.portfolioName = history.portfolioName
    /\ history.startDate # <<>> =>
          DaysFromCivil(o.executionDate[1], o.executionDate[2], o.executionDate[3])
            >= DaysFromCivil(history.startDate[1], history.startDate[2], history.startDate[3])
    /\ history.endDate # <<>> =>
          DaysFromCivil(o.executionDate[1], o.executionDate[2], o.executionDate[3])
            <= DaysFromCivil(history.endDate[1], history.endDate[2], history.endDate[3])

\* the stored orders that match, in storage order
Matching == SelectSeq(repoOrders, Matches)

\* history was called with a limit and an offset
HistoryCalled == history # NoHistory /\ history.limit # Omitted /\ history.offset # Omitted

\* the matching orders at positions offset .. offset + limit - 1
Page ==
    [i \in 1..(IF Len(Matching) - history.offset < history.limit
                THEN (IF Len(Matching) - history.offset < 0 THEN 0
                      ELSE Len(Matching) - history.offset)
                ELSE history.limit)
       |-> Matching[history.offset + i]]

\* C22: history(limit, offset, filters) returns total = the number of stored
\* orders matching the filters, whatever limit and offset are, and data =
\* exactly the matching orders at positions offset .. offset + limit - 1 in
\* storage order, so data never holds more than limit orders.
C22_HistoryPage ==
    HistoryCalled =>
        /\ history.result.total = Len(Matching)
        /\ history.result.data = Page
        /\ Len(history.result.data) <= history.limit

\* the same for a limit of at least 1
C22_HistoryPagePositiveLimit ==
    (HistoryCalled /\ history.limit >= 1) =>
        /\ history.result.total = Len(Matching)
        /\ history.result.data = Page
        /\ Len(history.result.data) <= history.limit

\* total for a call without limit or with limit 0: everything from offset on
C22_Total ==
    history # NoHistory => history.result.total = Len(Matching)

----------------------------------------------------------------------------
(* Claims about retries *)

\* the last request carried a key and failed in OrdersService.split
\* (validation, allocation or persistence), so no order was created for it
FailedWithKey ==
    /\ request # NoRequest
    /\ request.key # ""
    /\ response.kind = "thrown"
    /\ ~IsDuplicateRejection(response)

\* the next request carries the key of the last one
RetryStep ==
    /\ requestCount' = requestCount + 1
    /\ request'.key = request.key

----------------------------------------------------------------------------
(* Claims about the loop of nextExecutionDate *)

\* the day number of a returned date
DayOf(civil) == DaysFromCivil(civil[1], civil[2], civil[3])

\* the loop skips at most 3 days, and a returned date is at most 4 days
\* after the caller-local date of the instant
LoopBounded ==
    /\ iterations <= 3
    /\ marketOp = "nextExecutionDate" =>
          /\ DayOf(marketResult) - LocalDay(instant, tzOffset) <= 4
          /\ marketResult = NextExecutionDate(instant, tzOffset)

\* C24: nextExecutionDate terminates for every instant: the loop that skips
\* weekends and holidays takes a bounded number of turns (every run of
\* consecutive closed local days is at most 3 days long), so the call
\* returns, and the returned date is at most 4 calendar days after the
\* caller-local date of the instant.
C24_LoopTerminates ==
    /\ []LoopBounded
    /\ (marketOp = "nextExecutionDate.loop") ~> (marketOp = "nextExecutionDate")

\* Thursday 2024-03-28 after the close: Good Friday and the weekend are
\* skipped in 3 turns and Monday 2024-04-01 is returned
C24_Witness ==
    /\ marketOp = "nextExecutionDate"
    /\ iterations = 3
    /\ FormatLocalDate(LocalDay(instant, tzOffset)) = <<2024, 3, 28>>
    /\ marketResult = <<2024, 4, 1>>

----------------------------------------------------------------------------
(* Claims about the amounts of accepted requests *)

\* the request passed the validation: total > 0, every weight >= 0, and
\* the weights sum to 1 within 0.0001
AcceptedInputs ==
    /\ total.m > 0
    /\ \A i \in 1..N : portfolio[i].weight.m >= 0
    /\ ~WeightSumInvalid(TotalWeight(portfolio))

----------------------------------------------------------------------------
(* Claims about the date nextExecutionDate returns *)

\* the day number of the date the last call of nextExecutionDate returned
ReturnedDay == DayOf(marketResult)

C26_OpenOnLocalSaturday ==
    /\ marketOp = "nextExecutionDate"
    /\ MarketOpenAtInstant
    /\ GetDay(CallerDay) = 6
    /\ ReturnedDay = CallerDay

\* C27: the date nextExecutionDate returns is never earlier than the
\* caller-local date of the instant; it is that date exactly when the
\* market is open at the instant and a strictly later date whenever the
\* market is closed.
C27_NotBeforeLocalDate ==
    marketOp = "nextExecutionDate" =>
        /\ ReturnedDay >= CallerDay
        /\ ReturnedDay = CallerDay <=> MarketOpenAtInstant
        /\ ReturnedDay > CallerDay <=> ~MarketOpenAtInstant

\* after the close on a business day whose next day is a business day too:
\* the next day is returned, not the day itself
C27_Witness ==
    /\ marketOp = "nextExecutionDate"
    /\ ~MarketOpenAtInstant
    /\ IsBusinessDay(CallerDay)
    /\ ET.tod > HMS(16, 0, 0)
    /\ ReturnedDay = CallerDay + 1

----------------------------------------------------------------------------
(* Claims about concurrent requests *)

\* the two requests carry the same Idempotency-Key
SameKey == handlers[1].key # "" /\ handlers[1].key = handlers[2].key

\* the handler of h has run its check
Checked(h) == handlers[h].pc # "arrived"

\* request h passed idempotency.check and reached OrdersService.split
PassedCheck(h) ==
    /\ Len(handlers[h].calls) >= 2
    /\ handlers[h].calls[1] = "idempotency.check"
    /\ handlers[h].calls[2] = "service.split"

\* request h was rejected by idempotency.check with DUPLICATE_REQUEST
RejectedAsDuplicate(h) ==
    /\ handlers[h].calls = <<"idempotency.check">>
    /\ handlers[h].error = ConflictException("DUPLICATE_REQUEST")
    /\ handlers[h].pc = "responded" =>
          IsDuplicateRejection(handlers[h].response)

\* C28: under every interleaving of two concurrent POST /orders/split
\* requests with the same Idempotency-Key, exactly one passes
\* idempotency.check and reaches OrdersService.split and the other is
\* rejected with DUPLICATE_REQUEST.
C28_ExactlyOnePasses ==
    SameKey =>
        /\ ~(PassedCheck(1) /\ PassedCheck(2))
        /\ (Checked(1) /\ Checked(2)) =>
              \/ PassedCheck(1) /\ RejectedAsDuplicate(2)
              \/ PassedCheck(2) /\ RejectedAsDuplicate(1)
        /\ \A h \in Handlers :
              (Checked(h) /\ ~PassedCheck(h)) => RejectedAsDuplicate(h)

\* request 2 started first and waits for repo.save; the handler of request
\* 1 runs in between and is rejected; both are answered
C28_Witness ==
    /\ SameKey
    /\ handlers[1].pc = "responded" /\ handlers[2].pc = "responded"
    /\ handlers[1].otherPc = "awaitSave"
    /\ RejectedAsDuplicate(1)
    /\ PassedCheck(2)
    /\ handlers[2].response.kind = "returned"
    /\ Len(repoOrders) = 1

----------------------------------------------------------------------------
(* Claims about IdempotencyStore *)

\* check(k) is called
CheckStep(k) == requestCount' = requestCount + 1 /\ request' = [key |-> k]

\* the call of this step throws DUPLICATE_REQUEST
CheckRejects == thrown' = ConflictException("DUPLICATE_REQUEST")

\* k is registered and its registration is at most / more than TTL_MS old
RegisteredWithin(k) == k \in keys /\ now - keyTimestamps[k] <= TTL_MS
RegisteredBefore(k) == k \in keys /\ now - keyTimestamps[k] > TTL_MS

\* C29: a registered key K is rejected by every check(K) made up to and
\* including 24 hours after its registration, which leaves the registration
\* as it is, and is accepted and registered again with a fresh timestamp by
\* the first check(K) made more than 24 hours after it; a check without a
\* key never rejects and changes nothing; the key set and the timestamp map
\* always hold the same keys.
C29_KeyLifetime ==
    /\ [](keys = DOMAIN keyTimestamps)
    /\ [][\A k \in RequestKeys \ {""} :
            /\ (CheckStep(k) /\ RegisteredWithin(k)) =>
                  /\ CheckRejects
                  /\ k \in keys'
                  /\ keyTimestamps'[k] = keyTimestamps[k]
            /\ (CheckStep(k) /\ RegisteredBefore(k)) =>
                  /\ thrown' = NoError
                  /\ k \in keys'
                  /\ keyTimestamps'[k] = now
            /\ (CheckStep(k) /\ k \notin keys) =>
                  /\ thrown' = NoError
                  /\ k \in keys'
                  /\ keyTimestamps'[k] = now]_vars
    /\ [][CheckStep("") =>
            /\ thrown' = NoError
            /\ keys' = keys
            /\ keyTimestamps' = keyTimestamps]_vars

\* k1 was registered at 0, rejected exactly 24 hours later and accepted a
\* millisecond after that, with the timestamp of that call
C29_Witness ==
    /\ requestCount = 3
    /\ tickCount = 3
    /\ now = TTL_MS + 1
    /\ request = [key |-> "k1"]
    /\ thrown = NoError
    /\ keys = {"k1"}
    /\ keyTimestamps["k1"] = TTL_MS + 1

\* a check without a key while k1 is registered and expired: nothing changes
C29_KeylessWitness ==
    /\ request = [key |-> ""]
    /\ thrown = NoError
    /\ "k1" \in keys
    /\ now - keyTimestamps["k1"] > TTL_MS

----------------------------------------------------------------------------
(* Claims about the Retry decorator *)

\* the wrapper has returned or thrown
RetryOver == retry.pc \in {"returned", "threw"}

\* the attempts that threw, in order
FailedAttempts ==
    { i \in 1..Len(retry.attempts) : retry.attempts[i].kind = "threw" }

\* the method was invoked at most N times, nothing was invoked after an
\* attempt that returned, and the wrapper returns the value of that attempt
InvokedAtMostN ==
    /\ Len(retry.attempts) <= retry.options.maxAttempts
    /\ \A i \in 1..Len(retry.attempts) :
          retry.attempts[i].kind = "returned" =>
              /\ i = Len(retry.attempts)
              /\ retry.pc = "returned"
              /\ retry.result = retry.attempts[i].value
    /\ retry.pc = "returned" =>
          /\ retry.attempts # <<>>
          /\ retry.attempts[Len(retry.attempts)].kind = "returned"

\* all N attempts failed
AllFailed ==
    /\ Len(retry.attempts) = retry.options.maxAttempts
    /\ FailedAttempts = 1..retry.options.maxAttempts

\* the delays so far are those of the attempts 1, 2, ... in order
DelaysAreBackoff ==
    \A i \in 1..Len(retry.delays) :
        retry.delays[i] = retry.options.delayMs *
                            Pow(retry.options.backoffMultiplier, i - 1)

\* onRetry was called once for each of the first n failed attempts, with
\* the number of the attempt and its error
OnRetryCalledFor(n) ==
    /\ Len(retry.onRetryCalls) = n
    /\ \A i \in 1..n :
          /\ retry.onRetryCalls[i].attempt = i
          /\ retry.onRetryCalls[i].error = ToError(retry.attempts[i].error)

\* the failed attempts that were followed by onRetry and by the delay
FollowedUp == FailedAttempts \ {retry.options.maxAttempts}

\* C30 as stated: at most N invocations, the value of the first successful
\* attempt is returned and nothing is invoked after it, the error of the
\* last attempt, as that attempt threw it, is thrown if all N fail, onRetry
\* (if given) and the backoff delay occur after each failed attempt except
\* the N-th, and the call terminates.
C30_RetryContract ==
    /\ [](retry.options.maxAttempts >= 1 =>
            /\ InvokedAtMostN
            /\ (retry.pc = "threw" =>
                  /\ AllFailed
                  /\ retry.result = retry.attempts[retry.options.maxAttempts].error)
            /\ DelaysAreBackoff
            /\ Len(retry.delays) = Cardinality(FollowedUp)
            /\ (retry.options.onRetry # "absent" =>
                  OnRetryCalledFor(Cardinality(FollowedUp))))
    /\ (retry.options.maxAttempts >= 1) ~> RetryOver

\* C30 (amended): as above, except that a thrown value that is not an
\* Error is thrown on as new Error(String(value)), and that an onRetry
\* that throws ends the call at once with its own error, before the delay
\* and without another attempt.
C30_RetryContractConverted ==
    /\ [](retry.options.maxAttempts >= 1 =>
            /\ InvokedAtMostN
            /\ (retry.pc = "threw" /\ retry.options.onRetry # "throws" =>
                  /\ AllFailed
                  /\ retry.result = ToError(retry.attempts[retry.options.maxAttempts].error))
            /\ (retry.pc = "threw" /\ retry.options.onRetry = "throws" =>
                  \/ /\ retry.options.maxAttempts = 1
                     /\ AllFailed
                     /\ retry.result = ToError(retry.attempts[1].error)
                  \/ /\ retry.options.maxAttempts > 1
                     /\ Len(retry.attempts) = 1
                     /\ FailedAttempts = {1}
                     /\ retry.result = OnRetryError
                     /\ OnRetryCalledFor(1)
                     /\ retry.delays = <<>>)
            /\ DelaysAreBackoff
            /\ (retry.options.onRetry # "throws" =>
                  /\ Len(retry.delays) = Cardinality(FollowedUp)
                  /\ retry.options.onRetry # "absent" =>
                        OnRetryCalledFor(Cardinality(FollowedUp))))
    /\ (retry.options.maxAttempts >= 1) ~> RetryOver

\* three attempts failed, the last with an Error; onRetry was called and
\* the delays 100 and 200 were waited for after the first two
C30_Witness ==
    /\ retry.pc = "threw"
    /\ retry.options.maxAttempts = 3
    /\ retry.options.delayMs = 100
    /\ retry.options.backoffMultiplier = 2
    /\ retry.options.onRetry = "returns"
    /\ Len(retry.attempts) = 3
    /\ retry.attempts[1].error = ThrownString("s1")
    /\ retry.attempts[3].error = Error("e2")
    /\ retry.result = Error("e2")
    /\ retry.delays = <<100, 200>>
    /\ Len(retry.onRetryCalls) = 2

\* the second attempt returned: nothing is invoked after it
C30_ReturnWitness ==
    /\ retry.pc = "returned"
    /\ retry.options.maxAttempts = 3
    /\ Len(retry.attempts) = 2
    /\ retry.result = ReturnedValue("v2")
    /\ retry.delays = <<0>>

====
